---------------------------- MODULE Spec2Model ----------------------------
(***************************************************************************)
(* Song-matching core of static-dreamscapes: the embedding index           *)
(* (src/src/embeddings/store.py), the filter stage                         *)
(* (src/src/query/filters.py), the scorer (src/src/query/scorer.py) and   *)
(* the matcher (src/src/query/matcher.py) with the tempo hints of the      *)
(* document parser (src/src/ingest/notion_parser.py).                      *)
(*                                                                         *)
(* Numbers: similarities are cosines in hundredths (0.80 is 80); the      *)
(* component scores 1.0 / 0.5 / 0.0 are 100 / 50 / 0.  Vectors are integer *)
(* pairs whose length is an integer, so every cosine is exact.             *)
(* Optional values: None is the empty tuple, a present value x is <<x>>.   *)
(* Strings that the code inspects (musical keys, prompt texts) are         *)
(* sequences of one-character strings.                                     *)
(***************************************************************************)
EXTENDS Integers, Sequences, FiniteSets, TLC

VARIABLES
    embeddings,   \* EmbeddingStore.embeddings: sequence of <<song id, vector>>
    song_map,     \* EmbeddingStore.song_map: song id -> Song
    searched,     \* None, or <<the last search() call and what it returned>>
    firstAdded,   \* history: song ids in the order of their first add since clear()
    lastAdded,    \* history: song id -> [vec, song] of the latest add since clear()
    readded,      \* history: the last add call met a song id the store already held
    candidates,   \* apply_filters input: sequence of <<Song, similarity>>
    filters,      \* apply_filters input: SearchFilters
    filtered,     \* None, or <<the list apply_filters returned>>
    song_key,     \* Song.key given to _compute_key_compatibility (optional)
    preferred_key,\* SearchFilters.preferred_key (optional)
    key_compat,   \* None, or <<the score _compute_key_compatibility returned>>
    weights,      \* the weights dictionary given to SongScorer.__init__
    scorer,       \* None, or <<the SongScorer after __init__ (or what it raised)>>
    score_song,   \* compute_final_score input: Song
    score_similarity, \* compute_final_score input: similarity_score
    score_filters,\* compute_final_score input: SearchFilters
    scored,       \* None, or <<what compute_final_score returned (or raised)>>
    prompt_text,  \* text of a prompt in the source document
    prompt,       \* None, or <<the NotionPrompt the parser built from the text>>
    arc_number,   \* NotionArc.arc_number of the prompt's arc
    built_filters,\* None, or <<what _build_filters_from_prompt returned>>
    match_query,  \* the query embedding generated for the prompt
    match_count,  \* find_matches_for_prompt input: count
    match_min_similarity, \* find_matches_for_prompt input: min_similarity (optional)
    matched,      \* None, or <<what find_matches_for_prompt returned (or raised)>>
    db_songs,     \* the songs table: song id -> [filename, times_used]
    db_last,      \* None, or <<the last call on the database and what it returned>>
    tempo_bpm,    \* tempo_category_from_bpm input: bpm
    tempo_result, \* None, or <<the category tempo_category_from_bpm returned>>
    gen_songs,    \* generate_for_songs_batch input: list of Songs
    gen_result,   \* None, or <<the dictionary generate_for_songs_batch returned>>
    artifact,     \* the files on disk, by path: None when there is none
    saved,        \* history, by path: None, or <<the store at the save that wrote the file>>
    loaded,       \* None, or <<the last load() call: path, result, the store before and after>>
    calls_left,   \* how many calls of find_matches_for_prompt are still to come
    argsorted     \* None, or <<the array the last search sorted and the order it got>>

storeVars  == <<embeddings, song_map, searched, firstAdded, lastAdded, readded>>
filterVars == <<candidates, filters, filtered>>
keyVars    == <<song_key, preferred_key, key_compat>>
scorerVars == <<weights, scorer, score_song, score_similarity, score_filters, scored>>
matchVars  == <<prompt_text, prompt, arc_number, built_filters, match_query,
                match_count, match_min_similarity, matched>>
dbVars     == <<db_songs, db_last>>
tempoVars  == <<tempo_bpm, tempo_result>>
genVars    == <<gen_songs, gen_result>>
fileVars   == <<artifact, saved, loaded>>
repeatVars == <<calls_left, argsorted>>
auxVars    == <<dbVars, tempoVars, genVars, fileVars, repeatVars>>
vars       == <<storeVars, filterVars, keyVars, scorerVars, matchVars, auxVars>>

---------------------------------------------------------------------------
(* Bounds of the model *)

NumSongs == 2        \* song ids 1..NumSongs
MaxBatch == 2        \* longest songs list given to add_songs_batch
MaxTopK == 3         \* largest top_k given to search
MaxCands == 2        \* longest candidate list given to apply_filters
MaxPhrases == 2      \* most phrases in a prompt text
MaxLibrary == 3      \* most songs in the index the matcher searches
MaxUses == 3         \* largest times_used the songs table is driven to
MaxEncodeBatch == 3  \* longest songs list given to generate_for_songs_batch
MaxStored == 2       \* most add_song calls behind the index that is saved or loaded
MaxEnumerated == 5   \* longest array whose argsort outcomes are all enumerated

---------------------------------------------------------------------------
(* Optional values and small helpers *)

None == <<>>
Some(x) == <<x>>
IsSet(o) == o # None
Val(o) == o[1]
\* Python truthiness of an Optional number: None and 0 / 0.0 are falsy
Truthy(o) == IsSet(o) /\ Val(o) # 0

Abs(x) == IF x < 0 THEN -x ELSE x
MinOf(a, b) == IF a < b THEN a ELSE b
MaxOf(a, b) == IF a > b THEN a ELSE b
Range(s) == {s[i] : i \in 1..Len(s)}
SeqsUpTo(S, n) == UNION {[1..k -> S] : k \in 0..n}
Reverse(s) == [i \in 1..Len(s) |-> s[Len(s) + 1 - i]]

---------------------------------------------------------------------------
(* Song records *)

TempoOrder == <<"very_slow", "slow", "mid_tempo", "upbeat", "fast">>
TempoCategory == Range(TempoOrder)

Song(id, bpm, tempo, dur, used, key, arc) ==
    [id |-> id, bpm |-> bpm, tempo_category |-> tempo, duration_seconds |-> dur,
     times_used |-> used, key |-> key, arc_number |-> arc]


---------------------------------------------------------------------------
(* Embedding index: src/src/embeddings/store.py *)

SongIds == 1..NumSongs

\* Vectors handed to the store: integer pairs of length 5 (the unit length
\* of this model, as the embedding generator produces them) and one of
\* length 10 (add_song stores whatever vector it is given)
Vectors == {<<5, 0>>, <<4, 3>>, <<10, 0>>}
Queries == {<<5, 0>>, <<4, 3>>, <<0, 5>>, <<-5, 0>>}

\* Songs handed to the store: one record per song id, and a second record
\* of song 1 (read again from the database after a use)
StoreSong(id, used) ==
    Song(id, Some(95), Some("mid_tempo"), Some(120), used, None, Some(2))
StoreSongs == {StoreSong(id, 0) : id \in SongIds} \cup {StoreSong(1, 1)}

Dot(a, b) == a[1] * b[1] + a[2] * b[2]
ISqrt(n) == CHOOSE r \in 0..n : r * r <= n /\ n < (r + 1) * (r + 1)
Norm(v) == ISqrt(Dot(v, v))

\* sklearn cosine_similarity: both sides are normalized (a zero vector is
\* left as it is), then the dot product
cosine_similarity(q, v) ==
    IF Norm(q) = 0 \/ Norm(v) = 0 THEN 0
    ELSE (Dot(q, v) * 100) \div (Norm(q) * Norm(v))

\* add_song, the variant that always appends
add_song_append(store, song, embedding) ==
    [embeddings |-> Append(store.embeddings, <<song.id, embedding>>),
     song_map |-> (song.id :> song) @@ store.song_map]

\* add_song: replace the first entry with the song's id, else append
add_song(store, song, embedding) ==
    LET embs == store.embeddings
        hits == {i \in 1..Len(embs) : embs[i][1] = song.id}
    IN  IF hits # {}
        THEN LET i == CHOOSE h \in hits : \A g \in hits : h <= g
             IN  [embeddings |-> [embs EXCEPT ![i] = <<song.id, embedding>>],
                  song_map |-> (song.id :> song) @@ store.song_map]
        ELSE [embeddings |-> Append(embs, <<song.id, embedding>>),
              song_map |-> (song.id :> song) @@ store.song_map]

\* add_songs_batch: add_song for every song of the list whose id is a key
\* of the embeddings dictionary, in list order
RECURSIVE add_songs_batch(_, _, _)
add_songs_batch(store, songs, embs_by_id) ==
    IF songs = <<>> THEN store
    ELSE LET song == Head(songs)
             next == IF song.id \in DOMAIN embs_by_id
                     THEN add_song(store, song, embs_by_id[song.id])
                     ELSE store
         IN  add_songs_batch(next, Tail(songs), embs_by_id)

\* s[:k] of Python, for any integer k
SliceTo(s, k) ==
    IF k >= 0 THEN SubSeq(s, 1, MinOf(k, Len(s)))
    ELSE SubSeq(s, 1, MaxOf(0, Len(s) + k))

\* the ascending index order that keeps equal values in input order, and
\* the one that reverses them
TiesInOrder(values) ==
    LET n == Len(values)
        rank == [i \in 1..n |->
                    Cardinality({j \in 1..n : \/ values[j] < values[i]
                                              \/ values[j] = values[i] /\ j < i}) + 1]
    IN  [r \in 1..n |-> CHOOSE i \in 1..n : rank[i] = r]
TiesReversed(values) ==
    LET n == Len(values)
        rank == [i \in 1..n |->
                    Cardinality({j \in 1..n : \/ values[j] < values[i]
                                              \/ values[j] = values[i] /\ j > i}) + 1]
    IN  [r \in 1..n |-> CHOOSE i \in 1..n : rank[i] = r]

\* np.argsort(values) with the default kind ('quicksort', not stable): an
\* index order that sorts the values ascending; the order among equal
\* values is not specified, so every such order is an outcome.  For an
\* array longer than MaxEnumerated the two orders above stand for them.
ArgsortOutcomes(values) ==
    LET n == Len(values)
    IN  IF n > MaxEnumerated THEN {TiesInOrder(values), TiesReversed(values)}
        ELSE {p \in [1..n -> 1..n] :
                /\ \A i, j \in 1..n : i # j => p[i] # p[j]
                /\ \A i, j \in 1..n : i < j => values[p[i]] <= values[p[j]]}

\* the indices np.where(similarities >= min_similarity)[0], ascending
RECURSIVE ValidIndices(_, _, _)
ValidIndices(similarities, min_similarity, from) ==
    IF from > Len(similarities) THEN <<>>
    ELSE (IF similarities[from] >= min_similarity THEN <<from>> ELSE <<>>)
         \o ValidIndices(similarities, min_similarity, from + 1)

\* search, the variant that keeps argsort's ascending order
search_ascending(store, query_embedding, top_k, min_similarity, order) ==
    LET embs == store.embeddings
        similarities == [i \in 1..Len(embs) |-> cosine_similarity(query_embedding, embs[i][2])]
        valid_indices == ValidIndices(similarities, min_similarity, 1)
        sorted_indices == SliceTo(order, top_k)
    IN  IF embs = <<>> \/ valid_indices = <<>> THEN <<>>
        ELSE [r \in 1..Len(sorted_indices) |->
                LET idx == valid_indices[sorted_indices[r]]
                IN  <<store.song_map[embs[idx][1]], similarities[idx]>>]

\* search: `order` is the outcome of np.argsort(valid_similarities)
search(store, query_embedding, top_k, min_similarity, order) ==
    LET embs == store.embeddings
        similarities == [i \in 1..Len(embs) |-> cosine_similarity(query_embedding, embs[i][2])]
        valid_indices == ValidIndices(similarities, min_similarity, 1)
        sorted_indices == SliceTo(Reverse(order), top_k)
    IN  IF embs = <<>> \/ valid_indices = <<>> THEN <<>>
        ELSE [r \in 1..Len(sorted_indices) |->
                LET idx == valid_indices[sorted_indices[r]]
                IN  <<store.song_map[embs[idx][1]], similarities[idx]>>]

\* the similarities search hands to argsort
valid_similarities(store, query_embedding, min_similarity) ==
    LET embs == store.embeddings
        similarities == [i \in 1..Len(embs) |-> cosine_similarity(query_embedding, embs[i][2])]
        valid_indices == ValidIndices(similarities, min_similarity, 1)
    IN  [r \in 1..Len(valid_indices) |-> similarities[valid_indices[r]]]

Store == [embeddings |-> embeddings, song_map |-> song_map]

TopKs == -1..MaxTopK
MinSimilarities == {-100, 0, 80, 100}

\* history of the adds, kept beside the store
NoteAdd(hist, song, embedding) ==
    [first |-> IF song.id \in DOMAIN hist.last THEN hist.first
               ELSE Append(hist.first, song.id),
     last |-> (song.id :> [vec |-> embedding, song |-> song]) @@ hist.last,
     again |-> hist.again \/ song.id \in DOMAIN hist.last]

RECURSIVE NoteBatch(_, _, _)
NoteBatch(hist, songs, embs_by_id) ==
    IF songs = <<>> THEN hist
    ELSE NoteBatch(IF Head(songs).id \in DOMAIN embs_by_id
                   THEN NoteAdd(hist, Head(songs), embs_by_id[Head(songs).id])
                   ELSE hist,
                   Tail(songs), embs_by_id)

Hist == [first |-> firstAdded, last |-> lastAdded, again |-> FALSE]

\* the dictionaries song id -> vector given to add_songs_batch
BatchVectors == {<<4, 3>>, <<10, 0>>}
EmbeddingDicts == UNION {[ids -> BatchVectors] : ids \in SUBSET SongIds}

AddSong ==
    /\ searched = None
    /\ \E song \in StoreSongs, embedding \in Vectors :
        LET s == add_song(Store, song, embedding)
            h == NoteAdd(Hist, song, embedding)
        IN  /\ embeddings' = s.embeddings
            /\ song_map' = s.song_map
            /\ searched' = None
            /\ firstAdded' = h.first
            /\ lastAdded' = h.last
            /\ readded' = h.again
            /\ UNCHANGED <<filterVars, keyVars, scorerVars, matchVars, auxVars>>

AddSongsBatch ==
    /\ searched = None
    /\ \E songs \in SeqsUpTo(StoreSongs, MaxBatch), embs_by_id \in EmbeddingDicts :
        LET s == add_songs_batch(Store, songs, embs_by_id)
            h == NoteBatch(Hist, songs, embs_by_id)
        IN  /\ embeddings' = s.embeddings
            /\ song_map' = s.song_map
            /\ searched' = None
            /\ firstAdded' = h.first
            /\ lastAdded' = h.last
            /\ readded' = h.again
            /\ UNCHANGED <<filterVars, keyVars, scorerVars, matchVars, auxVars>>

Clear ==
    /\ searched = None
    /\ embeddings' = <<>>
    /\ song_map' = <<>>
    /\ searched' = None
    /\ firstAdded' = <<>>
    /\ lastAdded' = <<>>
    /\ readded' = FALSE
    /\ UNCHANGED <<filterVars, keyVars, scorerVars, matchVars, auxVars>>

Search ==
    /\ searched = None
    /\ \E q \in Queries, k \in TopKs, m \in MinSimilarities :
        \E order \in ArgsortOutcomes(valid_similarities(Store, q, m)) :
            /\ searched' = Some([query |-> q, top_k |-> k, min_similarity |-> m,
                                 results |-> search(Store, q, k, m, order)])
            /\ UNCHANGED <<embeddings, song_map, firstAdded, lastAdded, readded>>
            /\ UNCHANGED <<filterVars, keyVars, scorerVars, matchVars, auxVars>>

InitStore ==
    /\ embeddings = <<>>
    /\ song_map = <<>>
    /\ searched = None
    /\ firstAdded = <<>>
    /\ lastAdded = <<>>
    /\ readded = FALSE

\* the filter stage and the scorer at rest
IdleFilter == candidates = <<>> /\ filters = None /\ filtered = None
IdleKey == song_key = None /\ preferred_key = None /\ key_compat = None
IdleScorer ==
    /\ weights = None /\ scorer = None /\ score_song = None
    /\ score_similarity = None /\ score_filters = None /\ scored = None
IdleMatch ==
    /\ prompt_text = None /\ prompt = None /\ arc_number = None
    /\ built_filters = None /\ match_query = None /\ match_count = None
    /\ match_min_similarity = None /\ matched = None
IdleDb == db_songs = <<>> /\ db_last = None
IdleTempo == tempo_bpm = None /\ tempo_result = None
IdleGen == gen_songs = <<>> /\ gen_result = None
IdleFile == artifact = None /\ saved = None /\ loaded = None
IdleRepeat == calls_left = 0 /\ argsorted = None
IdleAux == IdleDb /\ IdleTempo /\ IdleGen /\ IdleFile /\ IdleRepeat

\* The index under any sequence of calls.  search() only reads the store,
\* so the calls that can follow a search are the calls that can be made on
\* the same store before it: they are taken from there (searched = None).
SpecStoreInit == InitStore /\ IdleFilter /\ IdleKey /\ IdleScorer /\ IdleMatch /\ IdleAux
SpecStoreNext == AddSong \/ AddSongsBatch \/ Clear \/ Search
SpecStore == SpecStoreInit /\ [][SpecStoreNext]_vars

---------------------------------------------------------------------------
(* Claims about the embedding index, under SpecStore *)

StoredIds == [i \in 1..Len(embeddings) |-> embeddings[i][1]]
\* similarity of the stored entry at position i to the query q
SimAt(q, i) == cosine_similarity(q, embeddings[i][2])
ReturnedIds(results) == {results[i][1].id : i \in 1..Len(results)}

\* C1: add_song is an upsert by song id. After any sequence of add_song,
\* add_songs_batch and clear calls the store holds one entry per song id,
\* the ids stand in the order of their first add (a re-add keeps the
\* entry's position), and each entry's vector and Song are those of the
\* latest add of that id.
C1_UpsertById ==
    /\ \A i, j \in 1..Len(embeddings) : i # j => StoredIds[i] # StoredIds[j]
    /\ StoredIds = firstAdded
    /\ DOMAIN song_map = Range(StoredIds)
    /\ \A i \in 1..Len(embeddings) :
          /\ embeddings[i][2] = lastAdded[StoredIds[i]].vec
          /\ song_map[StoredIds[i]] = lastAdded[StoredIds[i]].song

\* C1 witness: the last call re-added song 1, which stands first of two
\* entries, with a new record and a vector other than the second entry's
C1_Witness ==
    /\ readded
    /\ Len(embeddings) = 2
    /\ embeddings[1][1] = 1
    /\ song_map[1] = StoreSong(1, 1)
    /\ embeddings[1][2] # embeddings[2][2]

\* C2: for top_k >= 0, search returns at most top_k pairs, each a stored
\* song with its own similarity, each similarity >= min_similarity, in
\* non-increasing similarity order, and no stored entry that meets the
\* threshold and is left out has a strictly higher similarity than a
\* returned one.
C2_SearchTopK ==
    (IsSet(searched) /\ Val(searched).top_k >= 0) =>
        LET s == Val(searched)
            r == s.results
        IN  /\ Len(r) <= s.top_k
            /\ \A i \in 1..Len(r) : r[i][2] >= s.min_similarity
            /\ \A i, j \in 1..Len(r) : i < j => r[i][2] >= r[j][2]
            /\ \A i, j \in 1..Len(r) : i # j => r[i][1].id # r[j][1].id
            /\ \A i \in 1..Len(r) :
                  \E e \in 1..Len(embeddings) :
                      /\ StoredIds[e] = r[i][1].id
                      /\ r[i][1] = song_map[StoredIds[e]]
                      /\ r[i][2] = SimAt(s.query, e)
            /\ \A e \in 1..Len(embeddings) :
                  (SimAt(s.query, e) >= s.min_similarity /\ StoredIds[e] \notin ReturnedIds(r))
                      => \A i \in 1..Len(r) : SimAt(s.query, e) <= r[i][2]

\* C2 witness: over two stored entries that both meet the threshold 0.80,
\* a search with top_k = 1 returned one pair and left out the lower entry
C2_Witness ==
    /\ IsSet(searched)
    /\ Val(searched).top_k = 1
    /\ Len(Val(searched).results) = 1
    /\ Len(embeddings) = 2
    /\ Val(searched).min_similarity = 80
    /\ \A e \in 1..2 : SimAt(Val(searched).query, e) >= 80
    /\ SimAt(Val(searched).query, 1) < SimAt(Val(searched).query, 2)

\* C3 (as claimed): entries with the same similarity are returned in
\* insertion order, and when top_k cuts inside a group of ties the
\* first-inserted entries are the ones kept.
C3_TiesFirstInserted ==
    (IsSet(searched) /\ Val(searched).top_k >= 0) =>
        LET s == Val(searched)
            r == s.results
            PosOf(id) == CHOOSE e \in 1..Len(embeddings) : StoredIds[e] = id
        IN  /\ \A i, j \in 1..Len(r) :
                  (i < j /\ r[i][2] = r[j][2]) => PosOf(r[i][1].id) < PosOf(r[j][1].id)
            /\ \A a, b \in 1..Len(embeddings) :
                  (/\ a < b
                   /\ SimAt(s.query, a) = SimAt(s.query, b)
                   /\ StoredIds[b] \in ReturnedIds(r))
                      => StoredIds[a] \in ReturnedIds(r)

---------------------------------------------------------------------------
(* Filter stage: src/src/query/filters.py *)

SearchFilters(target_bpm, bpm_tolerance, tempo, min_dur, max_dur, max_used) ==
    [target_bpm |-> target_bpm, bpm_tolerance |-> bpm_tolerance,
     preferred_key |-> None, tempo_category |-> tempo,
     target_arc_number |-> None, min_duration |-> min_dur,
     max_duration |-> max_dur, max_times_used |-> max_used]

\* order.index(t); 0 stands for the ValueError of a value not in the list
TempoIndex(t) ==
    IF \E i \in 1..Len(TempoOrder) : TempoOrder[i] = t
    THEN CHOOSE i \in 1..Len(TempoOrder) : TempoOrder[i] = t
    ELSE 0

\* _are_adjacent_tempos, the variant that accepts a distance of 2
are_adjacent_tempos_wide(t1, t2) ==
    IF TempoIndex(t1) = 0 \/ TempoIndex(t2) = 0 THEN FALSE
    ELSE Abs(TempoIndex(t1) - TempoIndex(t2)) <= 2

are_adjacent_tempos(t1, t2) ==
    IF TempoIndex(t1) = 0 \/ TempoIndex(t2) = 0 THEN FALSE
    ELSE Abs(TempoIndex(t1) - TempoIndex(t2)) <= 1

\* the BPM check, the variant that drops a song exactly bpm_tolerance away
bpm_check_drops_at_tolerance(song, f) ==
    /\ IsSet(f.target_bpm) /\ IsSet(song.bpm)
    /\ Abs(Val(song.bpm) - Val(f.target_bpm)) >= f.bpm_tolerance

\* the four checks of the loop body; TRUE is `continue`
bpm_check_drops(song, f) ==
    /\ IsSet(f.target_bpm) /\ IsSet(song.bpm)
    /\ Abs(Val(song.bpm) - Val(f.target_bpm)) > f.bpm_tolerance

tempo_check_drops(song, f) ==
    /\ IsSet(f.tempo_category) /\ IsSet(song.tempo_category)
    /\ Val(song.tempo_category) # Val(f.tempo_category)
    /\ ~are_adjacent_tempos(Val(song.tempo_category), Val(f.tempo_category))

\* `if filters.min_duration and song.duration_seconds:` tests truthiness
duration_check_drops(song, f) ==
    \/ /\ Truthy(f.min_duration) /\ Truthy(song.duration_seconds)
       /\ Val(song.duration_seconds) < Val(f.min_duration)
    \/ /\ Truthy(f.max_duration) /\ Truthy(song.duration_seconds)
       /\ Val(song.duration_seconds) > Val(f.max_duration)

usage_check_drops(song, f) ==
    IsSet(f.max_times_used) /\ song.times_used > Val(f.max_times_used)

\* apply_filters: the loop over the candidates, appending the survivors
RECURSIVE apply_filters(_, _)
apply_filters(cands, f) ==
    IF cands = <<>> THEN <<>>
    ELSE LET song == Head(cands)[1]
             drop == \/ bpm_check_drops(song, f)
                     \/ tempo_check_drops(song, f)
                     \/ duration_check_drops(song, f)
                     \/ usage_check_drops(song, f)
         IN  (IF drop THEN <<>> ELSE <<Head(cands)>>) \o apply_filters(Tail(cands), f)

\* Inputs of apply_filters
DefaultBpmTolerance == 10
Opt(S) == {None} \cup {Some(x) : x \in S}
FilterSongs ==
    {Song(1, bpm, tempo, dur, used, None, None) :
        bpm \in Opt({84, 105, 200}), tempo \in Opt(TempoCategory),
        dur \in Opt({0, 30, 60, 400}), used \in {10, 11}}
FilterSets ==
    {SearchFilters(bpm, DefaultBpmTolerance, tempo, lo, hi, used) :
        bpm \in Opt({95}), tempo \in Opt(TempoCategory),
        lo \in Opt({0, 60}), hi \in Opt({0, 300}), used \in Opt({10})}
\* candidates that stand together in longer lists
FilterPool ==
    {<<Song(1, Some(105), Some("mid_tempo"), Some(60), 10, None, None), 90>>,
     <<Song(2, Some(200), Some("fast"), Some(400), 10, None, None), 95>>,
     <<Song(3, None, None, Some(0), 11, None, None), 50>>,
     <<Song(4, Some(84), Some("very_slow"), None, 0, None, None), 90>>}
CandidateLists ==
    {<<<<song, sim>>>> : song \in FilterSongs, sim \in {40, 90}}
        \cup SeqsUpTo(FilterPool, MaxCands)

InitFilter ==
    /\ candidates \in CandidateLists
    /\ filters \in FilterSets
    /\ filtered = None

ApplyFilters ==
    /\ filtered = None
    /\ filtered' = Some(apply_filters(candidates, filters))
    /\ UNCHANGED <<candidates, filters>>
    /\ UNCHANGED <<storeVars, keyVars, scorerVars, matchVars, auxVars>>

SpecFilterInit == InitFilter /\ InitStore /\ IdleKey /\ IdleScorer /\ IdleMatch /\ IdleAux
SpecFilterNext == ApplyFilters
SpecFilter == SpecFilterInit /\ [][SpecFilterNext]_vars

---------------------------------------------------------------------------
(* Claims about the filter stage, under SpecFilter *)

\* the rules as the claims state them: TRUE when the rule rejects the song
RejectsBpm(song, f) ==
    /\ IsSet(f.target_bpm) /\ IsSet(song.bpm)
    /\ Abs(Val(song.bpm) - Val(f.target_bpm)) > f.bpm_tolerance
TempoPosition(t) == CHOOSE i \in 1..5 : TempoOrder[i] = t
RejectsTempo(song, f) ==
    /\ IsSet(f.tempo_category) /\ IsSet(song.tempo_category)
    /\ Abs(TempoPosition(Val(song.tempo_category)) - TempoPosition(Val(f.tempo_category))) > 1
RejectsDuration(song, f) ==
    \/ /\ IsSet(f.min_duration) /\ IsSet(song.duration_seconds)
       /\ Val(song.duration_seconds) < Val(f.min_duration)
    \/ /\ IsSet(f.max_duration) /\ IsSet(song.duration_seconds)
       /\ Val(song.duration_seconds) > Val(f.max_duration)
RejectsUsage(song, f) ==
    IsSet(f.max_times_used) /\ song.times_used > Val(f.max_times_used)

KeepIf(cands, Keep(_)) == SelectSeq(cands, Keep)
WithoutBpm(f) == [f EXCEPT !.target_bpm = None]
WithoutTempo(f) == [f EXCEPT !.tempo_category = None]
Unconfigured(f) ==
    /\ f.target_bpm = None /\ f.tempo_category = None /\ f.min_duration = None
    /\ f.max_duration = None /\ f.max_times_used = None

\* C4 (as claimed): apply_filters returns exactly the candidates that pass
\* the BPM window, the tempo category, the duration bounds and the usage
\* ceiling, in their original order with their similarities; with no
\* filter configured it returns the input.
C4_ExactSubsequence ==
    IsSet(filtered) =>
        LET Passes(c) == /\ ~RejectsBpm(c[1], filters)
                         /\ ~RejectsTempo(c[1], filters)
                         /\ ~RejectsDuration(c[1], filters)
                         /\ ~RejectsUsage(c[1], filters)
        IN  /\ Val(filtered) = KeepIf(candidates, Passes)
            /\ Unconfigured(filters) => Val(filtered) = candidates

\* C5: the BPM filter drops a candidate exactly when target_bpm and
\* song.bpm are both set and |song.bpm - target_bpm| > bpm_tolerance: the
\* list returned is the list returned without a target_bpm, less the
\* candidates this rule rejects.
C5_BpmFilter ==
    IsSet(filtered) =>
        LET Passes(c) == ~RejectsBpm(c[1], filters)
        IN  Val(filtered) = KeepIf(apply_filters(candidates, WithoutBpm(filters)), Passes)

\* C5 witness: with target 95 and tolerance 10, a song at bpm 105 survived
\* and a song at bpm 200 with similarity 95 was dropped by this rule alone
C5_Witness ==
    /\ IsSet(filtered)
    /\ filters.target_bpm = Some(95) /\ filters.bpm_tolerance = 10
    /\ WithoutBpm(filters) = SearchFilters(None, 10, None, None, None, None)
    /\ Len(candidates) = 2
    /\ candidates[1][1].bpm = Some(200) /\ candidates[1][2] = 95
    /\ candidates[2][1].bpm = Some(105)
    /\ Val(filtered) = <<candidates[2]>>

\* C6 (as claimed): a song whose duration is present and below a present
\* min_duration, or present and above a present max_duration, is dropped,
\* the values 0 and 0.0 included.
C6_DurationEnforcedWhenPresent ==
    IsSet(filtered) =>
        \A i \in 1..Len(candidates) :
            RejectsDuration(candidates[i][1], filters)
                => candidates[i] \notin Range(Val(filtered))

\* C7: the tempo-category filter drops a candidate exactly when both
\* categories are set and their positions in the ordering differ by more
\* than 1: the list returned is the list returned without a tempo
\* category, less the candidates this rule rejects.
C7_TempoFilter ==
    IsSet(filtered) =>
        LET Passes(c) == ~RejectsTempo(c[1], filters)
        IN  Val(filtered) = KeepIf(apply_filters(candidates, WithoutTempo(filters)), Passes)

\* C7 witness: against category slow, a mid_tempo song survived and a fast
\* song was dropped by this rule alone
C7_Witness ==
    /\ IsSet(filtered)
    /\ filters = SearchFilters(None, 10, Some("slow"), None, None, None)
    /\ Len(candidates) = 2
    /\ candidates[1][1].tempo_category = Some("fast")
    /\ candidates[2][1].tempo_category = Some("mid_tempo")
    /\ Val(filtered) = <<candidates[2]>>

---------------------------------------------------------------------------
(* Key compatibility: src/src/query/scorer.py *)

UpperCase == <<"A", "B", "C", "D", "E", "F", "G", "H", "I", "J", "K", "L", "M",
               "N", "O", "P", "Q", "R", "S", "T", "U", "V", "W", "X", "Y", "Z">>
LowerCase == <<"a", "b", "c", "d", "e", "f", "g", "h", "i", "j", "k", "l", "m",
               "n", "o", "p", "q", "r", "s", "t", "u", "v", "w", "x", "y", "z">>

\* str.lower() and str.upper()
LowerChar(c) ==
    IF \E i \in 1..26 : UpperCase[i] = c
    THEN LowerCase[CHOOSE i \in 1..26 : UpperCase[i] = c]
    ELSE c
UpperChar(c) ==
    IF \E i \in 1..26 : LowerCase[i] = c
    THEN UpperCase[CHOOSE i \in 1..26 : LowerCase[i] = c]
    ELSE c
lower(str) == [i \in 1..Len(str) |-> LowerChar(str[i])]
upper(str) == [i \in 1..Len(str) |-> UpperChar(str[i])]

\* str.split(): the maximal runs of non-blank characters
RECURSIVE SplitFrom(_, _, _)
SplitFrom(str, i, word) ==
    IF i > Len(str) THEN (IF word = <<>> THEN <<>> ELSE <<word>>)
    ELSE IF str[i] = " "
         THEN (IF word = <<>> THEN <<>> ELSE <<word>>) \o SplitFrom(str, i + 1, <<>>)
         ELSE SplitFrom(str, i + 1, Append(word, str[i]))
split(str) == SplitFrom(str, 1, <<>>)

\* the note list of _are_relative_keys and _is_perfect_fifth (and of the
\* feature extractor's _detect_key), indexed from 0 as in the code
NoteNames == <<<<"C">>, <<"C", "#">>, <<"D">>, <<"D", "#">>, <<"E">>, <<"F">>,
               <<"F", "#">>, <<"G">>, <<"G", "#">>, <<"A">>, <<"A", "#">>, <<"B">>>>
Major == <<"m", "a", "j", "o", "r">>
Minor == <<"m", "i", "n", "o", "r">>

\* notes.index(note); -1 stands for the ValueError of a note not in the list
NoteIndex(note) ==
    IF \E i \in 1..12 : NoteNames[i] = note
    THEN (CHOOSE i \in 1..12 : NoteNames[i] = note) - 1
    ELSE -1

\* _parse_key: <<note, mode>>
parse_key(key) ==
    LET parts == split(key)
    IN  <<IF parts # <<>> THEN parts[1] ELSE <<"C">>,
          IF Len(parts) > 1 THEN parts[2] ELSE Major>>

are_relative_keys(note1, mode1, note2, mode2) ==
    IF mode1 = mode2 THEN FALSE
    ELSE IF NoteIndex(note1) = -1 \/ NoteIndex(note2) = -1 THEN FALSE
    ELSE IF mode1 = Major /\ mode2 = Minor
         THEN (NoteIndex(note1) - 3) % 12 = NoteIndex(note2)
    ELSE IF mode1 = Minor /\ mode2 = Major
         THEN (NoteIndex(note2) - 3) % 12 = NoteIndex(note1)
    ELSE FALSE

is_perfect_fifth(note1, note2) ==
    IF NoteIndex(note1) = -1 \/ NoteIndex(note2) = -1 THEN FALSE
    ELSE Abs(NoteIndex(note1) - NoteIndex(note2)) % 12 = 7

\* _are_compatible_keys, the variant without the parallel-key rule
are_compatible_keys_no_parallel(key1, key2) ==
    LET k1 == parse_key(key1)
        k2 == parse_key(key2)
    IN  \/ are_relative_keys(k1[1], k1[2], k2[1], k2[2])
        \/ is_perfect_fifth(k1[1], k2[1])

are_compatible_keys(key1, key2) ==
    LET k1 == parse_key(key1)
        k2 == parse_key(key2)
    IN  \/ k1[1] = k2[1]
        \/ are_relative_keys(k1[1], k1[2], k2[1], k2[2])
        \/ is_perfect_fifth(k1[1], k2[1])

\* _compute_key_compatibility on the optional song.key and
\* filters.preferred_key: 100, 50 or 0 for 1.0, 0.5 or 0.0
compute_key_compatibility(key, preferred) ==
    IF preferred = None \/ key = None THEN 0
    ELSE LET sk == lower(Val(key))
             tk == lower(Val(preferred))
         IN  IF sk = tk THEN 100
             ELSE IF are_compatible_keys(sk, tk) THEN 50
             ELSE 0

\* Keys: "<note> <mode>" as _detect_key writes it, the same in lower and in
\* upper case, a bare note, and the empty string
Modes == {Major, Minor}
StoredKey(n, mode) == NoteNames[n + 1] \o <<" ">> \o mode
DetectedKeys == {StoredKey(n, mode) : n \in 0..11, mode \in Modes}
KeyStrings ==
    DetectedKeys \cup {lower(k) : k \in DetectedKeys} \cup {upper(k) : k \in DetectedKeys}
        \cup {NoteNames[n] : n \in 1..12} \cup {<<>>}

InitKey ==
    /\ song_key \in Opt(KeyStrings)
    /\ preferred_key \in Opt(KeyStrings)
    /\ key_compat = None

ComputeKeyCompatibility ==
    /\ key_compat = None
    /\ key_compat' = Some(compute_key_compatibility(song_key, preferred_key))
    /\ UNCHANGED <<song_key, preferred_key>>
    /\ UNCHANGED <<storeVars, filterVars, scorerVars, matchVars, auxVars>>

SpecKeyInit == InitKey /\ InitStore /\ IdleFilter /\ IdleScorer /\ IdleMatch /\ IdleAux
SpecKeyNext == ComputeKeyCompatibility
SpecKey == SpecKeyInit /\ [][SpecKeyNext]_vars

---------------------------------------------------------------------------
(* Claims about key compatibility, under SpecKey *)

\* both keys are written as the feature extractor stores them, with roots
\* n1, n2 (semitones above C) and modes m1, m2
KeysAre(n1, m1, n2, m2) ==
    song_key = Some(StoredKey(n1, m1)) /\ preferred_key = Some(StoredKey(n2, m2))

FifthApart(n1, n2) == (n1 - n2) % 12 = 7 \/ (n2 - n1) % 12 = 7

\* C8 (as claimed): two keys whose roots are 7 semitones apart modulo 12,
\* in either direction, and which are not the same key score 0.5.
C8_PerfectFifth ==
    IsSet(key_compat) =>
        \A n1, n2 \in 0..11 : \A m1, m2 \in Modes :
            (KeysAre(n1, m1, n2, m2) /\ FifthApart(n1, n2)) => Val(key_compat) = 50

\* C9 (as claimed): a major key and its relative minor (root 3 semitones
\* lower, modulo 12) score 0.5 in either argument order; a major/minor pair
\* that is not relative, not parallel and not a fifth apart scores 0.0.
C9_RelativeKeys ==
    IsSet(key_compat) =>
        \A n1, n2 \in 0..11 : \A m1, m2 \in Modes :
            (KeysAre(n1, m1, n2, m2) /\ m1 # m2) =>
                LET maj == IF m1 = Major THEN n1 ELSE n2
                    min == IF m1 = Major THEN n2 ELSE n1
                IN  /\ min = (maj - 3) % 12 => Val(key_compat) = 50
                    /\ (min # (maj - 3) % 12 /\ n1 # n2 /\ ~FifthApart(n1, n2))
                          => Val(key_compat) = 0

\* two strings equal but for the case of their letters
SameLetter(c, d) ==
    c = d \/ \E i \in 1..26 : {c, d} = {UpperCase[i], LowerCase[i]}
EqualIgnoringCase(a, b) ==
    Len(a) = Len(b) /\ \A i \in 1..Len(a) : SameLetter(a[i], b[i])
\* the key of root n and the given mode, in any of the three spellings
Spellings(n, mode) ==
    {StoredKey(n, mode), lower(StoredKey(n, mode)), upper(StoredKey(n, mode))}

\* C10: the key compatibility is 1.0 exactly when both keys are present
\* and equal ignoring letter case, 0.5 for the same root with the other
\* mode (parallel keys), and 0.0 when either key is missing.
C10_ExactAndParallel ==
    IsSet(key_compat) =>
        /\ Val(key_compat) = 100 <=>
              /\ IsSet(song_key) /\ IsSet(preferred_key)
              /\ EqualIgnoringCase(Val(song_key), Val(preferred_key))
        /\ (song_key = None \/ preferred_key = None) => Val(key_compat) = 0
        /\ \A n \in 0..11 : \A m1, m2 \in Modes :
              (/\ m1 # m2
               /\ IsSet(song_key) /\ Val(song_key) \in Spellings(n, m1)
               /\ IsSet(preferred_key) /\ Val(preferred_key) \in Spellings(n, m2))
                  => Val(key_compat) = 50

\* C10 witness: "C major" scored against "C MINOR", a spelling of the
\* parallel key, gave 0.5
C10_Witness ==
    /\ key_compat = Some(50)
    /\ song_key = Some(StoredKey(0, Major))
    /\ preferred_key = Some(upper(StoredKey(0, Minor)))

---------------------------------------------------------------------------
(* Scorer: src/src/query/scorer.py *)
(* Weights are thousandths (0.50 is 500).  An effective weight is the      *)
(* fraction weight / unit: unit is 1000 for weights left as configured and *)
(* the configured total for renormalized ones (w * (1.0 / total)).  The    *)
(* component scores are hundredths; a final score is the fraction          *)
(* num / den with den = unit * 100.                                        *)

\* a weights dictionary: None stands for a key the dictionary does not hold
WeightsDict(similarity, arc_bonus, bpm_proximity, key_compatibility, usage_penalty) ==
    [similarity |-> similarity, arc_bonus |-> arc_bonus,
     bpm_proximity |-> bpm_proximity, key_compatibility |-> key_compatibility,
     usage_penalty |-> usage_penalty]

\* weights.get(key, default)
get(dict, key, default) == IF IsSet(dict[key]) THEN Val(dict[key]) ELSE default

Scorer(similarity, arc_bonus, bpm, key, usage_penalty, unit) ==
    [raised |-> "", similarity_weight |-> similarity, arc_bonus_weight |-> arc_bonus,
     bpm_weight |-> bpm, key_weight |-> key, usage_penalty_weight |-> usage_penalty,
     unit |-> unit]
\* a call that raised: the exception and, for a pydantic ValidationError,
\* the fields that failed validation
Raised(exception, fields) == [raised |-> exception, fields |-> fields]

\* SongScorer.__init__: the weights are renormalized when their total is
\* more than 0.01 away from 1.0; 1.0 / total raises for a total of 0
scorer_init(w) ==
    LET similarity_weight == get(w, "similarity", 500)
        arc_bonus_weight == get(w, "arc_bonus", 200)
        bpm_weight == get(w, "bpm_proximity", 150)
        key_weight == get(w, "key_compatibility", 100)
        usage_penalty_weight == get(w, "usage_penalty", 50)
        total == similarity_weight + arc_bonus_weight + bpm_weight
                    + key_weight + usage_penalty_weight
    IN  IF Abs(total - 1000) > 10
        THEN IF total = 0 THEN Raised("ZeroDivisionError", {})
             ELSE Scorer(similarity_weight, arc_bonus_weight, bpm_weight,
                         key_weight, usage_penalty_weight, total)
        ELSE Scorer(similarity_weight, arc_bonus_weight, bpm_weight,
                    key_weight, usage_penalty_weight, 1000)

\* the filters of a scoring call: SearchFilters with the fields the scorer reads
ScoringFilters(target_bpm, bpm_tolerance, preferred, target_arc) ==
    [SearchFilters(target_bpm, bpm_tolerance, None, None, None, None)
        EXCEPT !.preferred_key = preferred, !.target_arc_number = target_arc]

\* _compute_arc_bonus, the variant without the partial bonus
compute_arc_bonus_exact_only(song, f) ==
    IF f.target_arc_number = None \/ song.arc_number = None THEN 0
    ELSE IF Val(song.arc_number) = Val(f.target_arc_number) THEN 100
    ELSE 0

compute_arc_bonus(song, f) ==
    IF f.target_arc_number = None \/ song.arc_number = None THEN 0
    ELSE IF Val(song.arc_number) = Val(f.target_arc_number) THEN 100
    ELSE IF Abs(Val(song.arc_number) - Val(f.target_arc_number)) = 1 THEN 50
    ELSE 0

\* _compute_bpm_proximity, the variant without the clamp at 0
compute_bpm_proximity_unclamped(song, f) ==
    IF f.target_bpm = None \/ song.bpm = None THEN 0
    ELSE 100 - (Abs(Val(song.bpm) - Val(f.target_bpm)) * 100) \div f.bpm_tolerance

compute_bpm_proximity(song, f) ==
    IF f.target_bpm = None \/ song.bpm = None THEN 0
    ELSE MaxOf(0, 100 - (Abs(Val(song.bpm) - Val(f.target_bpm)) * 100) \div f.bpm_tolerance)

\* np.log1p(n) / np.log1p(10) in hundredths, rounded, for n = 1..12; the
\* ratio grows with n, so beyond 12 it is at least its value at 12
Log1pRatioTable == <<29, 46, 58, 67, 75, 81, 87, 92, 96, 100, 104, 107>>
Log1pRatio(n) == IF n <= 12 THEN Log1pRatioTable[n] ELSE Log1pRatioTable[12]

\* _compute_usage_penalty, the variant without the min(1.0, ...)
compute_usage_penalty_unclamped(song) ==
    IF song.times_used = 0 THEN 0 ELSE Log1pRatio(song.times_used)

compute_usage_penalty(song) ==
    IF song.times_used = 0 THEN 0 ELSE MinOf(100, Log1pRatio(song.times_used))

\* SongMatch: the pydantic model checks every score against [0, 1]
InUnit(x) == 0 <= x /\ x <= 100
FractionInUnit(q) ==
    \/ q.den > 0 /\ 0 <= q.num /\ q.num <= q.den
    \/ q.den < 0 /\ q.den <= q.num /\ q.num <= 0
SongMatch(song, similarity_score, arc_match_bonus, bpm_proximity, usage_penalty, final_score) ==
    LET invalid ==
            (IF InUnit(similarity_score) THEN {} ELSE {"similarity_score"})
              \cup (IF InUnit(arc_match_bonus) THEN {} ELSE {"arc_match_bonus"})
              \cup (IF InUnit(bpm_proximity) THEN {} ELSE {"bpm_proximity"})
              \cup (IF InUnit(usage_penalty) THEN {} ELSE {"usage_penalty"})
              \cup (IF FractionInUnit(final_score) THEN {} ELSE {"final_score"})
    IN  IF invalid # {} THEN Raised("ValidationError", invalid)
        ELSE [raised |-> "", song |-> song, similarity_score |-> similarity_score,
              arc_match_bonus |-> arc_match_bonus, bpm_proximity |-> bpm_proximity,
              usage_penalty |-> usage_penalty, final_score |-> final_score]

\* compute_final_score, the variant that adds the penalty instead of 1 - penalty
compute_final_score_adds_penalty(sc, song, similarity_score, f) ==
    LET arc_bonus == compute_arc_bonus(song, f)
        bpm_proximity == compute_bpm_proximity(song, f)
        key_compat_score == compute_key_compatibility(song.key, f.preferred_key)
        usage_penalty == compute_usage_penalty(song)
        final_score == sc.similarity_weight * similarity_score
                        + sc.arc_bonus_weight * arc_bonus
                        + sc.bpm_weight * bpm_proximity
                        + sc.key_weight * key_compat_score
                        + sc.usage_penalty_weight * usage_penalty
    IN  SongMatch(song, similarity_score, arc_bonus, bpm_proximity, usage_penalty,
                  [num |-> final_score, den |-> sc.unit * 100])

compute_final_score(sc, song, similarity_score, f) ==
    LET semantic_score == similarity_score
        arc_bonus == compute_arc_bonus(song, f)
        bpm_proximity == compute_bpm_proximity(song, f)
        key_compat_score == compute_key_compatibility(song.key, f.preferred_key)
        usage_penalty == compute_usage_penalty(song)
        usage_score == 100 - usage_penalty
        final_score == sc.similarity_weight * semantic_score
                        + sc.arc_bonus_weight * arc_bonus
                        + sc.bpm_weight * bpm_proximity
                        + sc.key_weight * key_compat_score
                        + sc.usage_penalty_weight * usage_score
    IN  SongMatch(song, semantic_score, arc_bonus, bpm_proximity, usage_penalty,
                  [num |-> final_score, den |-> sc.unit * 100])

\* Inputs
\* weight dictionaries for the construction alone
WeightConfigs ==
    {WeightsDict(a, b, c, d, e) :
        a \in Opt({0, 400, 497, 505}), b \in Opt({0, 160}), c \in Opt({0, 120}),
        d \in Opt({0, 80}), e \in Opt({0, 45})}
\* weight dictionaries of the scorers that score: the defaults, totals of
\* 0.8, 0.995, 1.005 and 1.5, a single non-zero weight, and all zero
ScoringWeightConfigs ==
    {WeightsDict(None, None, None, None, None),
     WeightsDict(Some(400), Some(160), Some(120), Some(80), Some(40)),
     WeightsDict(Some(495), None, None, None, None),
     WeightsDict(Some(505), None, None, None, None),
     WeightsDict(Some(1000), None, None, None, None),
     WeightsDict(Some(0), Some(0), Some(0), Some(0), Some(50)),
     WeightsDict(Some(0), Some(0), Some(0), Some(0), Some(0))}
CMajor == StoredKey(0, Major)
ScoringSongs ==
    {Song(1, bpm, None, None, used, key, arc) :
        bpm \in Opt({95, 100, 105, 115}), used \in {0, 1, 5, 10, 50},
        key \in Opt({CMajor}), arc \in Opt({1, 2, 3, 4})}
ScoringSimilarities == {0, 90, 100}
ScoringFilterSets ==
    {ScoringFilters(bpm, DefaultBpmTolerance, key, arc) :
        bpm \in Opt({95}), key \in Opt({CMajor}), arc \in Opt({2})}

Construct ==
    /\ scorer = None
    /\ weights # None
    /\ scorer' = Some(scorer_init(weights))
    /\ UNCHANGED <<weights, score_song, score_similarity, score_filters, scored>>
    /\ UNCHANGED <<storeVars, filterVars, keyVars, matchVars, auxVars>>

ComputeFinalScore ==
    /\ scorer # None
    /\ Val(scorer).raised = ""
    /\ score_song # None
    /\ scored = None
    /\ scored' = Some(compute_final_score(Val(scorer), Val(score_song),
                                          Val(score_similarity), Val(score_filters)))
    /\ UNCHANGED <<weights, scorer, score_song, score_similarity, score_filters>>
    /\ UNCHANGED <<storeVars, filterVars, keyVars, matchVars, auxVars>>

\* construction alone, over the weight dictionaries
SpecWeightsInit ==
    /\ weights \in WeightConfigs /\ scorer = None
    /\ score_song = None /\ score_similarity = None /\ score_filters = None
    /\ scored = None
    /\ InitStore /\ IdleFilter /\ IdleKey /\ IdleMatch /\ IdleAux
SpecWeightsNext == Construct
SpecWeights == SpecWeightsInit /\ [][SpecWeightsNext]_vars

\* construction, then one scoring call
SpecScorerInit ==
    /\ weights \in ScoringWeightConfigs /\ scorer = None
    /\ score_song \in {Some(x) : x \in ScoringSongs}
    /\ score_similarity \in {Some(x) : x \in ScoringSimilarities}
    /\ score_filters \in {Some(x) : x \in ScoringFilterSets}
    /\ scored = None
    /\ InitStore /\ IdleFilter /\ IdleKey /\ IdleMatch /\ IdleAux
SpecScorerNext == Construct \/ ComputeFinalScore
SpecScorer == SpecScorerInit /\ [][SpecScorerNext]_vars

---------------------------------------------------------------------------
(* Scorer claims *)

ScorerBuilt == scorer # None /\ Val(scorer).raised = ""
ConfiguredTotal ==
    get(weights, "similarity", 500) + get(weights, "arc_bonus", 200)
        + get(weights, "bpm_proximity", 150) + get(weights, "key_compatibility", 100)
        + get(weights, "usage_penalty", 50)
EffectiveTotal ==
    Val(scorer).similarity_weight + Val(scorer).arc_bonus_weight + Val(scorer).bpm_weight
        + Val(scorer).key_weight + Val(scorer).usage_penalty_weight
\* the effective weights, as numerators over Val(scorer).unit, and the
\* configured ones in the same order
EffectiveWeights ==
    <<Val(scorer).similarity_weight, Val(scorer).arc_bonus_weight, Val(scorer).bpm_weight,
      Val(scorer).key_weight, Val(scorer).usage_penalty_weight>>
ConfiguredWeights ==
    <<get(weights, "similarity", 500), get(weights, "arc_bonus", 200),
      get(weights, "bpm_proximity", 150), get(weights, "key_compatibility", 100),
      get(weights, "usage_penalty", 50)>>

\* C11: after a SongScorer is constructed from any weight configuration
\* whose sum is not zero, the effective weights sum to 1.0 and keep the
\* proportions of the configured weights, for every sum different from 1.0.
C11_WeightsSumToOne ==
    (scorer # None /\ ConfiguredTotal # 0) =>
        /\ Val(scorer).raised = ""
        /\ EffectiveTotal = Val(scorer).unit
        /\ \A i, j \in 1..5 :
              EffectiveWeights[i] * ConfiguredWeights[j]
                  = EffectiveWeights[j] * ConfiguredWeights[i]

NonNegativeWeights == \A i \in 1..5 : ConfiguredWeights[i] >= 0
Scored == scored # None /\ Val(scored).raised = ""

\* C12: for a scorer built from non-negative weights, every song and every
\* similarity in [0, 1], compute_final_score returns a SongMatch whose
\* final_score lies in [0, 1]; the call never fails the range validation.
C12_FinalScoreInUnit ==
    (scored # None /\ NonNegativeWeights) =>
        /\ Val(scored).raised = ""
        /\ FractionInUnit(Val(scored).final_score)

\* the worked example: bpm 95, arc 2, key 'C major', never used, against a
\* target of 95 BPM, arc 2 and 'C major', similarity 0.9, default weights
ExampleScoring ==
    /\ weights = WeightsDict(None, None, None, None, None)
    /\ score_song = Some(Song(1, Some(95), None, None, 0, Some(CMajor), Some(2)))
    /\ score_similarity = Some(90)
    /\ score_filters = Some(ScoringFilters(Some(95), DefaultBpmTolerance,
                                           Some(CMajor), Some(2)))

\* C13: final_score = w_sim * similarity + w_arc * arc_bonus
\* + w_bpm * bpm_proximity + w_key * key_compatibility
\* + w_usage * (1 - usage_penalty), with the effective weights; the worked
\* example scores 0.95.
C13_FinalScoreFormula ==
    /\ Scored =>
          LET m == Val(scored)
              sc == Val(scorer)
          IN  /\ m.final_score.den = sc.unit * 100
              /\ m.final_score.num =
                    sc.similarity_weight * Val(score_similarity)
                      + sc.arc_bonus_weight * m.arc_match_bonus
                      + sc.bpm_weight * m.bpm_proximity
                      + sc.key_weight * compute_key_compatibility(
                            Val(score_song).key, Val(score_filters).preferred_key)
                      + sc.usage_penalty_weight * (100 - m.usage_penalty)
    /\ (scored # None /\ ExampleScoring) =>
          /\ Val(scored).raised = ""
          /\ Val(scored).final_score.num * 100 = 95 * Val(scored).final_score.den
C13_Witness == Scored /\ ExampleScoring /\ Val(scored).final_score.den = 100000

\* what validation rejected, if the scoring call raised
RejectedFields == IF scored # None /\ Val(scored).raised # "" THEN Val(scored).fields ELSE {}
ArcsSet == Val(score_song).arc_number # None /\ Val(score_filters).target_arc_number # None
ArcDistance == Abs(Val(Val(score_song).arc_number) - Val(Val(score_filters).target_arc_number))

\* C18: the arc bonus is 1.0 when the song's arc equals the target arc, 0.5
\* when they differ by exactly one, 0.0 when they differ by two or more, and
\* 0.0 when either is unset.
C18_ArcBonus ==
    /\ "arc_match_bonus" \notin RejectedFields
    /\ Scored =>
          Val(scored).arc_match_bonus =
              IF ~ArcsSet THEN 0
              ELSE IF ArcDistance = 0 THEN 100
              ELSE IF ArcDistance = 1 THEN 50
              ELSE 0
C18_Witness == Scored /\ ArcsSet /\ ArcDistance = 1 /\ Val(scored).arc_match_bonus = 50

BpmsSet == Val(score_song).bpm # None /\ Val(score_filters).target_bpm # None
BpmDistance == Abs(Val(Val(score_song).bpm) - Val(Val(score_filters).target_bpm))

\* C19: for a positive tolerance the BPM proximity is
\* max(0, 1 - |song bpm - target bpm| / tolerance): 1.0 at the target, falling
\* linearly to 0.0 at the tolerance and staying 0.0 beyond it; it is 0.0
\* when the song's BPM or the target is missing.
C19_BpmProximity ==
    /\ "bpm_proximity" \notin RejectedFields
    /\ Scored =>
          LET tol == Val(score_filters).bpm_tolerance
              p == Val(scored).bpm_proximity
          IN  IF ~BpmsSet THEN p = 0
              ELSE IF BpmDistance >= tol THEN p = 0
              ELSE p * tol = 100 * (tol - BpmDistance)
C19_Witness ==
    /\ Scored /\ BpmsSet
    /\ 0 < BpmDistance /\ BpmDistance < Val(score_filters).bpm_tolerance
    /\ Val(scored).bpm_proximity = 50

\* C20: the usage penalty is 0.0 for a song never used, does not decrease
\* as times_used grows, stays within [0, 1] for every times_used >= 0 and
\* equals 1.0 for every times_used of 10 or more.
C20_UsagePenalty ==
    /\ "usage_penalty" \notin RejectedFields
    /\ Scored =>
          LET song == Val(score_song)
              p == Val(scored).usage_penalty
          IN  /\ song.times_used = 0 => p = 0
              /\ InUnit(p)
              /\ song.times_used >= 10 => p = 100
              /\ \A n \in 0..song.times_used :
                    compute_usage_penalty([song EXCEPT !.times_used = n]) <= p
C20_Witness == Scored /\ Val(score_song).times_used = 50 /\ Val(scored).usage_penalty = 100

---------------------------------------------------------------------------
(* Tempo hints of a prompt (src/src/ingest/notion_parser.py) and the       *)
(* filters the matcher builds from them (src/src/query/matcher.py)         *)

\* `keyword in text`
Contains(text, keyword) ==
    \E i \in 1..(Len(text) - Len(keyword) + 1) :
        SubSeq(text, i, i + Len(keyword) - 1) = keyword

\* tempo_map of _extract_tempo_hints, in the order of the dict
tempo_map ==
    <<<<<<"v", "e", "r", "y", " ", "s", "l", "o", "w">>, "very_slow">>,
      <<<<"e", "x", "t", "r", "e", "m", "e", "l", "y", " ", "s", "l", "o", "w">>, "very_slow">>,
      <<<<"s", "l", "o", "w", " ", "t", "e", "m", "p", "o">>, "slow">>,
      <<<<"s", "l", "o", "w">>, "slow">>,
      <<<<"d", "o", "w", "n", "t", "e", "m", "p", "o">>, "slow">>,
      <<<<"m", "i", "d", "-", "t", "e", "m", "p", "o">>, "mid_tempo">>,
      <<<<"m", "i", "d", " ", "t", "e", "m", "p", "o">>, "mid_tempo">>,
      <<<<"m", "o", "d", "e", "r", "a", "t", "e">>, "mid_tempo">>,
      <<<<"u", "p", "b", "e", "a", "t">>, "upbeat">>,
      <<<<"e", "n", "e", "r", "g", "e", "t", "i", "c">>, "upbeat">>,
      <<<<"f", "a", "s", "t">>, "fast">>,
      <<<<"r", "a", "p", "i", "d">>, "fast">>>>

\* the loop of _extract_tempo_hints over the items of a keyword table
RECURSIVE ExtractOver(_, _, _)
ExtractOver(table, text_lower, hints) ==
    IF table = <<>> THEN hints
    ELSE LET keyword == Head(table)[1]
             category == Head(table)[2]
         IN  ExtractOver(Tail(table), text_lower,
                         IF Contains(text_lower, keyword) /\ category \notin Range(hints)
                         THEN Append(hints, category)
                         ELSE hints)

\* _extract_tempo_hints, the variant that walks the table backwards
extract_tempo_hints_backwards(text) == ExtractOver(Reverse(tempo_map), lower(text), <<>>)

extract_tempo_hints(text) == ExtractOver(tempo_map, lower(text), <<>>)

\* NotionPrompt as the parser builds it from a prompt's text
NotionPrompt(text) == [prompt_text |-> text, tempo_hints |-> extract_tempo_hints(text)]

\* the loop over prompt.tempo_hints: the first hint that is one of the five
\* categories, in list order
RECURSIVE FirstRecognized(_)
FirstRecognized(hints) ==
    IF hints = <<>> THEN None
    ELSE IF Head(hints) \in TempoCategory THEN Some(Head(hints))
    ELSE FirstRecognized(Tail(hints))

\* the target BPM paired with a tempo category
HintBpm(category) ==
    CASE category = "very_slow" -> 50
      [] category = "slow" -> 70
      [] category = "mid_tempo" -> 95
      [] category = "upbeat" -> 120
      [] category = "fast" -> 150

\* the keyword scan of the prompt text, used when no hint was recognized
TextCategory(text_lower) ==
    IF Contains(text_lower, <<"s", "l", "o", "w">>) THEN Some("slow")
    ELSE IF \/ Contains(text_lower, <<"m", "i", "d", "-", "t", "e", "m", "p", "o">>)
            \/ Contains(text_lower, <<"m", "i", "d", " ", "t", "e", "m", "p", "o">>)
         THEN Some("mid_tempo")
    ELSE IF \/ Contains(text_lower, <<"u", "p", "b", "e", "a", "t">>)
            \/ Contains(text_lower, <<"e", "n", "e", "r", "g", "e", "t", "i", "c">>)
         THEN Some("upbeat")
    ELSE None

build_filters_from_prompt(p, arc, default_bpm_tolerance) ==
    LET hinted == FirstRecognized(p.tempo_hints)
        tempo_category == IF IsSet(hinted) THEN hinted
                          ELSE TextCategory(lower(p.prompt_text))
        target_bpm == IF IsSet(tempo_category) THEN Some(HintBpm(Val(tempo_category)))
                      ELSE None
    IN  [SearchFilters(target_bpm, default_bpm_tolerance, tempo_category,
                       Some(60), Some(300), Some(10))
            EXCEPT !.target_arc_number = Some(arc)]

\* Inputs: prompt texts made of up to MaxPhrases phrases
Phrases ==
    {<<"S", "l", "o", "w">>,
     <<"V", "e", "r", "y", " ", "s", "l", "o", "w">>,
     <<"d", "o", "w", "n", "t", "e", "m", "p", "o">>,
     <<"M", "i", "d", "-", "T", "e", "m", "p", "o">>,
     <<"m", "o", "d", "e", "r", "a", "t", "e">>,
     <<"U", "p", "b", "e", "a", "t">>,
     <<"e", "n", "e", "r", "g", "e", "t", "i", "c">>,
     <<"F", "A", "S", "T">>,
     <<"r", "a", "p", "i", "d">>,
     <<"w", "a", "r", "m">>}
RECURSIVE JoinWords(_)
JoinWords(words) ==
    IF words = <<>> THEN <<>>
    ELSE IF Len(words) = 1 THEN Head(words)
    ELSE Head(words) \o <<" ">> \o JoinWords(Tail(words))
PromptTexts == {JoinWords(words) : words \in SeqsUpTo(Phrases, MaxPhrases)}
ArcNumbers == 1..4

ParsePrompt ==
    /\ prompt = None
    /\ prompt_text # None
    /\ prompt' = Some(NotionPrompt(Val(prompt_text)))
    /\ UNCHANGED <<prompt_text, arc_number, built_filters, match_query, match_count,
                   match_min_similarity, matched>>
    /\ UNCHANGED <<storeVars, filterVars, keyVars, scorerVars, auxVars>>

BuildFilters ==
    /\ prompt # None
    /\ built_filters = None
    /\ built_filters' = Some(build_filters_from_prompt(Val(prompt), Val(arc_number),
                                                       DefaultBpmTolerance))
    /\ UNCHANGED <<prompt_text, prompt, arc_number, match_query, match_count,
                   match_min_similarity, matched>>
    /\ UNCHANGED <<storeVars, filterVars, keyVars, scorerVars, auxVars>>

\* a prompt is parsed from its text, then the matcher builds its filters
SpecHintsInit ==
    /\ prompt_text \in {Some(t) : t \in PromptTexts}
    /\ prompt = None
    /\ arc_number \in {Some(n) : n \in ArcNumbers}
    /\ built_filters = None
    /\ match_query = None /\ match_count = None /\ match_min_similarity = None
    /\ matched = None
    /\ InitStore /\ IdleFilter /\ IdleKey /\ IdleScorer /\ IdleAux
SpecHintsNext == ParsePrompt \/ BuildFilters
SpecHints == SpecHintsInit /\ [][SpecHintsNext]_vars

---------------------------------------------------------------------------
(* Matcher: src/src/query/matcher.py, find_matches_for_prompt *)

DefaultMinSimilarity == 60
CandidateTopK == 50

\* min_similarity * 0.8 as a threshold on hundredths: the least whole
\* number of hundredths that is >= 0.8 * min_similarity
CandidateThreshold(min_sim) == -((-(min_sim * 8)) \div 10)

\* a.final_score >= b.final_score, for scores with positive denominators
\* (the scores of one scorer share their denominator)
ScoreGE(a, b) ==
    IF a.final_score.den = b.final_score.den
    THEN a.final_score.num >= b.final_score.num
    ELSE a.final_score.num * b.final_score.den >= b.final_score.num * a.final_score.den

\* the outcome of the scoring loop over the candidates it scores, in
\* order: the first exception ends the call
ScoringOutcome(sc, scored_cands, f) ==
    LET ms == [i \in 1..Len(scored_cands) |->
                  compute_final_score(sc, scored_cands[i][1], scored_cands[i][2], f)]
        failing == {i \in 1..Len(ms) : ms[i].raised # ""}
    IN  IF failing # {}
        THEN LET i == CHOOSE x \in failing : \A y \in failing : x <= y
             IN  [raised |-> ms[i].raised, fields |-> ms[i].fields,
                  scored_matches |-> <<>>]
        ELSE [raised |-> "", fields |-> {}, scored_matches |-> ms]

\* the scoring loop, the variant that scores every filtered candidate
score_candidates_unchecked(sc, cands, min_sim, f) ==
    ScoringOutcome(sc, cands, f)

\* the scoring loop: candidates below min_similarity are skipped, the
\* others are scored in order
score_candidates(sc, cands, min_sim, f) ==
    LET clears(c) == ~(c[2] < min_sim)
    IN  ScoringOutcome(sc, SelectSeq(cands, clears), f)

\* list.sort(key=final_score), ascending: stable
RECURSIVE sort_by_final_score_ascending(_)
sort_by_final_score_ascending(ms) ==
    IF ms = <<>> THEN <<>>
    ELSE LET front == sort_by_final_score_ascending(SubSeq(ms, 1, Len(ms) - 1))
             m == ms[Len(ms)]
             k == Cardinality({i \in 1..Len(front) : ScoreGE(m, front[i])})
         IN  SubSeq(front, 1, k) \o <<m>> \o SubSeq(front, k + 1, Len(front))

\* scored_matches.sort(key=lambda m: m.final_score, reverse=True): stable,
\* equal scores keep their order
RECURSIVE sort_by_final_score(_)
sort_by_final_score(ms) ==
    IF ms = <<>> THEN <<>>
    ELSE LET front == sort_by_final_score(SubSeq(ms, 1, Len(ms) - 1))
             m == ms[Len(ms)]
             k == Cardinality({i \in 1..Len(front) : ScoreGE(front[i], m)})
         IN  SubSeq(front, 1, k) \o <<m>> \o SubSeq(front, k + 1, Len(front))

\* what a call of find_matches_for_prompt did: what it raised, if anything,
\* the list it returned, and the lists of its steps
MatchOutcome(raised, fields, cands, survivors, scored_matches, matches) ==
    [raised |-> raised, fields |-> fields, candidates |-> cands,
     filtered |-> survivors, scored_matches |-> scored_matches, matches |-> matches]

\* find_matches_for_prompt, the variant whose search returns every entry
\* above the threshold
find_matches_for_prompt_uncut(store, sc, p, arc, count, min_sim_arg, query, order) ==
    LET min_sim == IF min_sim_arg = None THEN DefaultMinSimilarity ELSE Val(min_sim_arg)
        cands == search(store, query, Len(store.embeddings), CandidateThreshold(min_sim), order)
        f == build_filters_from_prompt(p, arc, DefaultBpmTolerance)
        survivors == apply_filters(cands, f)
        scoring == score_candidates(sc, survivors, min_sim, f)
        sorted == sort_by_final_score(scoring.scored_matches)
    IN  IF cands = <<>> THEN MatchOutcome("", {}, cands, <<>>, <<>>, <<>>)
        ELSE IF survivors = <<>> THEN MatchOutcome("", {}, cands, survivors, <<>>, <<>>)
        ELSE IF scoring.raised # ""
             THEN MatchOutcome(scoring.raised, scoring.fields, cands, survivors, <<>>, <<>>)
        ELSE MatchOutcome("", {}, cands, survivors, sorted, SliceTo(sorted, count))

\* find_matches_for_prompt; `order` is the outcome of the argsort in search
find_matches_for_prompt(store, sc, p, arc, count, min_sim_arg, query, order) ==
    LET min_sim == IF min_sim_arg = None THEN DefaultMinSimilarity ELSE Val(min_sim_arg)
        cands == search(store, query, CandidateTopK, CandidateThreshold(min_sim), order)
        f == build_filters_from_prompt(p, arc, DefaultBpmTolerance)
        survivors == apply_filters(cands, f)
        scoring == score_candidates(sc, survivors, min_sim, f)
        sorted == sort_by_final_score(scoring.scored_matches)
    IN  IF cands = <<>> THEN MatchOutcome("", {}, cands, <<>>, <<>>, <<>>)
        ELSE IF survivors = <<>> THEN MatchOutcome("", {}, cands, survivors, <<>>, <<>>)
        ELSE IF scoring.raised # ""
             THEN MatchOutcome(scoring.raised, scoring.fields, cands, survivors, <<>>, <<>>)
        ELSE MatchOutcome("", {}, cands, survivors, sorted, SliceTo(sorted, count))

\* Inputs: songs of the library with their vectors.  Against the query
\* <<5, 0>> the vectors <<5, 0>>, <<4, 3>>, <<3, 4>> score 1.0, 0.8, 0.6.
LibrarySongs ==
    {[song |-> Song(1, Some(95), Some("mid_tempo"), Some(180), 0, Some(CMajor), Some(2)),
      vec |-> <<5, 0>>],
     [song |-> Song(2, Some(100), Some("mid_tempo"), Some(0), 10, None, Some(3)),
      vec |-> <<4, 3>>],
     [song |-> Song(3, Some(70), Some("slow"), Some(400), 0, None, Some(1)),
      vec |-> <<4, 3>>],
     [song |-> Song(4, Some(95), Some("mid_tempo"), Some(200), 11, None, Some(2)),
      vec |-> <<5, 0>>],
     [song |-> Song(5, None, None, None, 0, None, None),
      vec |-> <<3, 4>>],
     [song |-> Song(6, Some(95), Some("mid_tempo"), Some(240), 0, None, Some(2)),
      vec |-> <<5, 0>>]}
Libraries ==
    {lib \in SeqsUpTo(LibrarySongs, MaxLibrary) :
        \A i, j \in 1..Len(lib) : i # j => lib[i] # lib[j]}

\* the index after add_song for every song of a library, and its history
RECURSIVE AddAll(_, _)
AddAll(store, lib) ==
    IF lib = <<>> THEN store
    ELSE AddAll(add_song(store, Head(lib).song, Head(lib).vec), Tail(lib))
RECURSIVE NoteAll(_, _)
NoteAll(hist, lib) ==
    IF lib = <<>> THEN hist
    ELSE NoteAll(NoteAdd(hist, Head(lib).song, Head(lib).vec), Tail(lib))
EmptyStore == [embeddings |-> <<>>, song_map |-> <<>>]
EmptyHist == [first |-> <<>>, last |-> <<>>, again |-> FALSE]

MatchTexts ==
    {<<"w", "a", "r", "m">>,
     <<"M", "i", "d", "-", "T", "e", "m", "p", "o">>,
     <<"F", "A", "S", "T", " ", "S", "l", "o", "w">>}
MatchQueries == {<<5, 0>>, <<4, 3>>}
MatchCounts == {-1, 0, 1, 5}
MatchMinSimilarities == Opt({0, 80, 100})
MatcherWeights ==
    {WeightsDict(None, None, None, None, None),
     WeightsDict(Some(605), None, None, Some(0), None),
     WeightsDict(Some(505), None, None, None, None)}

\* what a call of find_matches_for_prompt leaves in the index, the variant
\* that counts a use of every song it returns
store_after_find_matches_counting_uses(store, out) ==
    LET ids == {out.matches[i].song.id : i \in 1..Len(out.matches)}
    IN  [embeddings |-> store.embeddings,
         song_map |-> [id \in DOMAIN store.song_map |->
                          IF id \in ids
                          THEN [store.song_map[id] EXCEPT !.times_used = @ + 1]
                          ELSE store.song_map[id]]]

\* what a call of find_matches_for_prompt leaves in the index: search,
\* apply_filters and compute_final_score read the entries and the Songs,
\* build new lists and SongMatch objects, and assign to neither
store_after_find_matches(store, out) == store

\* the outcomes of np.argsort for an array: the one it had when the last
\* search sorted the same array, any outcome otherwise
ArgsortAgain(values) ==
    IF argsorted # None /\ Val(argsorted).values = values
    THEN {Val(argsorted).order}
    ELSE ArgsortOutcomes(values)

FindMatches ==
    /\ calls_left > 0
    /\ match_query # None
    /\ LET min_sim == IF match_min_similarity = None THEN DefaultMinSimilarity
                      ELSE Val(match_min_similarity)
           threshold == CandidateThreshold(min_sim)
           values == valid_similarities(Store, Val(match_query), threshold)
       IN  \E order \in ArgsortAgain(values) :
            \E out \in {find_matches_for_prompt(Store, Val(scorer), Val(prompt),
                             Val(arc_number), Val(match_count), match_min_similarity,
                             Val(match_query), order)} :
              \E after \in {store_after_find_matches(Store, out)} :
                  /\ matched' = Some(out)
                  /\ searched' = Some([query |-> Val(match_query), top_k |-> CandidateTopK,
                                       min_similarity |-> threshold,
                                       results |-> out.candidates])
                  /\ built_filters' =
                        IF out.candidates = <<>> THEN None
                        ELSE Some(build_filters_from_prompt(Val(prompt), Val(arc_number),
                                                            DefaultBpmTolerance))
                  /\ embeddings' = after.embeddings
                  /\ song_map' = after.song_map
                  /\ argsorted' = Some([values |-> values, order |-> order])
    /\ calls_left' = calls_left - 1
    /\ UNCHANGED <<firstAdded, lastAdded, readded>>
    /\ UNCHANGED <<prompt_text, prompt, arc_number, match_query, match_count,
                   match_min_similarity>>
    /\ UNCHANGED <<filterVars, keyVars, scorerVars, dbVars, tempoVars, genVars, fileVars>>

\* a matcher over a loaded index and a built scorer answers one prompt
SpecMatchInit ==
    /\ \E lib \in Libraries :
          /\ embeddings = AddAll(EmptyStore, lib).embeddings
          /\ song_map = AddAll(EmptyStore, lib).song_map
          /\ firstAdded = NoteAll(EmptyHist, lib).first
          /\ lastAdded = NoteAll(EmptyHist, lib).last
    /\ readded = FALSE
    /\ searched = None
    /\ weights \in MatcherWeights
    /\ scorer = Some(scorer_init(weights))
    /\ score_song = None /\ score_similarity = None /\ score_filters = None
    /\ scored = None
    /\ prompt_text \in {Some(t) : t \in MatchTexts}
    /\ prompt = Some(NotionPrompt(Val(prompt_text)))
    /\ arc_number = Some(2)
    /\ built_filters = None
    /\ match_query \in {Some(q) : q \in MatchQueries}
    /\ match_count \in {Some(c) : c \in MatchCounts}
    /\ match_min_similarity \in MatchMinSimilarities
    /\ matched = None
    /\ calls_left = 1
    /\ argsorted = None
    /\ IdleFilter /\ IdleKey /\ IdleDb /\ IdleTempo /\ IdleGen /\ IdleFile
SpecMatchNext == FindMatches
SpecMatch == SpecMatchInit /\ [][SpecMatchNext]_vars

---------------------------------------------------------------------------
(* Matcher claims *)

Returned == matched # None /\ Val(matched).raised = ""
\* the caller's min_similarity, the matcher's default when none is given
CallerMinSimilarity ==
    IF match_min_similarity = None THEN DefaultMinSimilarity ELSE Val(match_min_similarity)
MatchedIds(ms) == {ms[i].song.id : i \in 1..Len(ms)}

\* C14: find_matches_for_prompt returns a list in non-increasing final_score
\* order, of at most `count` entries (count being a number of entries, 0 or
\* more), and no scored candidate left out of the list has a strictly
\* higher final_score than a returned one.
C14_BestByFinalScore ==
    Returned =>
        LET r == Val(matched).matches
            all == Val(matched).scored_matches
        IN  /\ \A i, j \in 1..Len(r) :
                  i < j => r[i].final_score.num >= r[j].final_score.num
            /\ Val(match_count) >= 0 => Len(r) <= Val(match_count)
            /\ MatchedIds(r) \subseteq MatchedIds(all)
            /\ \A k \in 1..Len(all) :
                  all[k].song.id \notin MatchedIds(r) =>
                      \A i \in 1..Len(r) :
                          all[k].final_score.num <= r[i].final_score.num
\* two candidates were scored with different scores, one was asked for and
\* the better one came back
C14_Witness ==
    /\ Returned
    /\ Val(match_count) = 1
    /\ Len(Val(matched).matches) = 1
    /\ \E k \in 1..Len(Val(matched).scored_matches) :
          Val(matched).scored_matches[k].final_score.num
              < Val(matched).matches[1].final_score.num
    /\ Val(matched).filtered[1][1].id # Val(matched).matches[1].song.id

\* C15: every SongMatch returned by find_matches_for_prompt has a raw
\* similarity >= the caller's min_similarity, and its song passes every
\* filter derived for the prompt: no returned song has times_used above
\* the default usage ceiling or, when its duration is present, a duration
\* outside the default bounds.
C15_ReturnedPassThresholdAndFilters ==
    (Returned /\ Val(matched).matches # <<>>) =>
        LET r == Val(matched).matches
            f == Val(built_filters)
        IN  \A i \in 1..Len(r) :
              /\ r[i].similarity_score >= CallerMinSimilarity
              /\ ~RejectsBpm(r[i].song, f)
              /\ ~RejectsTempo(r[i].song, f)
              /\ ~RejectsUsage(r[i].song, f)
              /\ ~RejectsDuration(r[i].song, f)

\* the threshold search was called with: 0.8 x the caller's min_similarity
SearchThreshold == CandidateThreshold(CallerMinSimilarity)
NothingClears == \A e \in 1..Len(embeddings) : SimAt(Val(match_query), e) < SearchThreshold
FiltersRemovedAll == Val(matched).candidates # <<>> /\ Val(matched).filtered = <<>>
SurvivorsAllBelow ==
    /\ Val(matched).filtered # <<>>
    /\ \A i \in 1..Len(Val(matched).filtered) :
          Val(matched).filtered[i][2] < CallerMinSimilarity

\* C16: find_matches_for_prompt returns an empty list and does not raise
\* when the index is empty, when no stored vector clears the similarity
\* threshold, when the filters remove every candidate, or when every
\* surviving candidate is below the caller's min_similarity; search
\* returns [] on an empty index or when nothing clears the threshold.
C16_EmptyResultNotError ==
    matched # None =>
        /\ (embeddings = <<>> \/ NothingClears) => Val(searched).results = <<>>
        /\ (embeddings = <<>> \/ NothingClears \/ FiltersRemovedAll \/ SurvivorsAllBelow)
              => /\ Val(matched).raised = ""
                 /\ Val(matched).matches = <<>>
\* candidates were found and passed the filters, all below min_similarity
C16_Witness ==
    /\ matched # None
    /\ SurvivorsAllBelow
    /\ Val(matched).matches = <<>>
    /\ Val(match_count) > 0

RecognizedHints == {h \in Range(Val(prompt).tempo_hints) : h \in TempoCategory}
\* the recognized hint that stands first in the priority order
\* very_slow, slow, mid_tempo, upbeat, fast
FirstInPriority ==
    CHOOSE h \in RecognizedHints :
        \A g \in RecognizedHints : TempoIndex(h) <= TempoIndex(g)

---------------------------------------------------------------------------
(* Tempo category of a BPM: src/src/core/models.py *)

\* tempo_category_from_bpm, the variant whose breakpoints belong to the
\* slower category
tempo_category_from_bpm_inclusive(bpm) ==
    IF bpm <= 60 THEN "very_slow"
    ELSE IF bpm <= 80 THEN "slow"
    ELSE IF bpm <= 110 THEN "mid_tempo"
    ELSE IF bpm <= 140 THEN "upbeat"
    ELSE "fast"

tempo_category_from_bpm(bpm) ==
    IF bpm < 60 THEN "very_slow"
    ELSE IF bpm < 80 THEN "slow"
    ELSE IF bpm < 110 THEN "mid_tempo"
    ELSE IF bpm < 140 THEN "upbeat"
    ELSE "fast"

\* whole BPM values, beyond the range 30..200 the analysis accepts
TempoBpms == 0..220

TempoCategoryFromBpm ==
    /\ tempo_bpm # None
    /\ tempo_result = None
    /\ tempo_result' = Some(tempo_category_from_bpm(Val(tempo_bpm)))
    /\ UNCHANGED <<tempo_bpm, dbVars, genVars, fileVars, repeatVars>>
    /\ UNCHANGED <<storeVars, filterVars, keyVars, scorerVars, matchVars>>

SpecTempoInit ==
    /\ tempo_bpm \in {Some(b) : b \in TempoBpms}
    /\ tempo_result = None
    /\ IdleDb /\ IdleGen /\ IdleFile /\ IdleRepeat
    /\ InitStore /\ IdleFilter /\ IdleKey /\ IdleScorer /\ IdleMatch
SpecTempoNext == TempoCategoryFromBpm
SpecTempo == SpecTempoInit /\ [][SpecTempoNext]_vars

\* the category the breakpoints 60, 80, 110, 140 assign: the number of
\* breakpoints at or below the BPM, counted along the tempo ordering
BreakpointsUpTo(bpm) == Cardinality({b \in {60, 80, 110, 140} : b <= bpm})

---------------------------------------------------------------------------
(* Songs table of the feature store: src/src/core/database.py *)
(* A row is kept as [filename, times_used]; id is PRIMARY KEY and          *)
(* filename is UNIQUE.                                                     *)

\* insert_song: the INSERT, committed; an id or a filename the table
\* already holds raises sqlite3.IntegrityError, and the call returns False
insert_song(table, song) ==
    IF \/ song.id \in DOMAIN table
       \/ \E id \in DOMAIN table : table[id].filename = song.filename
    THEN [returned |-> FALSE, table |-> table]
    ELSE [returned |-> TRUE,
          table |-> (song.id :> [filename |-> song.filename,
                                 times_used |-> song.times_used]) @@ table]

\* update_song_usage, the variant whose UPDATE has no WHERE clause
update_song_usage_every_row(table, song_id) ==
    [id \in DOMAIN table |-> [table[id] EXCEPT !.times_used = @ + 1]]

\* update_song_usage: UPDATE songs SET times_used = times_used + 1 WHERE id = ?
update_song_usage(table, song_id) ==
    [id \in DOMAIN table |->
        IF id = song_id THEN [table[id] EXCEPT !.times_used = @ + 1] ELSE table[id]]

Filenames == {"a.mp3", "b.mp3"}
DbSongs ==
    {[id |-> id, filename |-> f, times_used |-> u] :
        id \in SongIds, f \in Filenames, u \in {0, 1}}
\* the ids update_song_usage is called with: those of the songs, and one
\* no song has
DbIds == SongIds \cup {NumSongs + 1}
DbCall(op, id, filename, returned) ==
    [op |-> op, id |-> id, filename |-> filename, returned |-> returned]

InsertSong ==
    /\ \E song \in DbSongs :
          LET r == insert_song(db_songs, song)
          IN  /\ db_songs' = r.table
              /\ db_last' = Some(DbCall("insert_song", song.id, song.filename, r.returned))
    /\ UNCHANGED <<tempoVars, genVars, fileVars, repeatVars>>
    /\ UNCHANGED <<storeVars, filterVars, keyVars, scorerVars, matchVars>>

UpdateSongUsage ==
    /\ \E song_id \in DbIds :
          /\ song_id \in DOMAIN db_songs => db_songs[song_id].times_used < MaxUses
          /\ db_songs' = update_song_usage(db_songs, song_id)
          /\ db_last' = Some(DbCall("update_song_usage", song_id, "", TRUE))
    /\ UNCHANGED <<tempoVars, genVars, fileVars, repeatVars>>
    /\ UNCHANGED <<storeVars, filterVars, keyVars, scorerVars, matchVars>>

SpecDbInit ==
    /\ IdleDb /\ IdleTempo /\ IdleGen /\ IdleFile /\ IdleRepeat
    /\ InitStore /\ IdleFilter /\ IdleKey /\ IdleScorer /\ IdleMatch
SpecDbNext == InsertSong \/ UpdateSongUsage
SpecDb == SpecDbInit /\ [][SpecDbNext]_vars

\* the call that made the step
CallMade == Val(db_last')

\* C22: across any sequence of insert_song and update_song_usage a song's
\* stored times_used never decreases: update_song_usage(id) raises that
\* song's counter by exactly 1 and leaves every other counter unchanged,
\* and a rejected insert_song leaves the stored counters unchanged.
C22_UsageNeverDecreases ==
    [][/\ \A id \in DOMAIN db_songs :
            /\ id \in DOMAIN db_songs'
            /\ db_songs'[id].times_used >= db_songs[id].times_used
       /\ CallMade.op = "update_song_usage" =>
            /\ DOMAIN db_songs' = DOMAIN db_songs
            /\ \A id \in DOMAIN db_songs :
                  db_songs'[id].times_used =
                      db_songs[id].times_used + (IF id = CallMade.id THEN 1 ELSE 0)
       /\ (CallMade.op = "insert_song" /\ ~CallMade.returned) =>
            db_songs' = db_songs
      ]_vars
\* song 1 was used twice, the last call used it, song 2 was never used
C22_Witness ==
    /\ db_last = Some(DbCall("update_song_usage", 1, "", TRUE))
    /\ DOMAIN db_songs = {1, 2}
    /\ db_songs[1].times_used = 2
    /\ db_songs[2].times_used = 0

---------------------------------------------------------------------------
(* Embedding generator: src/src/embeddings/generator.py *)
(* The embedding model is a fixed function of the text; texts are kept     *)
(* whole, as the generator only hands them to the model.                   *)

\* a Song with the fields its embedding text is made of
TextSong(id, combined_text, song_prompt, used) ==
    [id |-> id, combined_text |-> combined_text, prompt_text |-> song_prompt,
     times_used |-> used]

\* Song.embedding_text: combined_text when it is set and not empty, else
\* the parts joined; of the parts the model keeps the prompt text
embedding_text(song) ==
    IF song.combined_text # None /\ song.combined_text # Some("")
    THEN Val(song.combined_text)
    ELSE IF song.prompt_text # None /\ song.prompt_text # Some("")
    THEN Val(song.prompt_text)
    ELSE ""

\* self.model.encode(text, normalize_embeddings=True): a unit vector per text
Encode(text) ==
    CASE text = "rain on glass" -> <<5, 0>>
      [] text = "neon drive" -> <<4, 3>>
      [] text = "" -> <<3, 4>>
      [] OTHER -> <<0, 5>>
\* self.model.encode(texts, ...): one row per text, in order
EncodeAll(texts) == [i \in 1..Len(texts) |-> Encode(texts[i])]

generate_for_song(song) == Encode(embedding_text(song))

\* generate_for_songs_batch, the variant that pairs the songs with the rows
\* in reverse
generate_for_songs_batch_reversed(songs) ==
    LET texts == [i \in 1..Len(songs) |-> embedding_text(songs[i])]
        rows == EncodeAll(texts)
        last(id) == CHOOSE i \in 1..Len(songs) :
                        /\ songs[i].id = id
                        /\ \A j \in 1..Len(songs) : songs[j].id = id => j <= i
    IN  [id \in {songs[i].id : i \in 1..Len(songs)} |-> rows[Len(songs) + 1 - last(id)]]

\* generate_for_songs_batch: {song.id: embeddings[i]}, a later song of the
\* list replacing an earlier one with the same id
generate_for_songs_batch(songs) ==
    LET texts == [i \in 1..Len(songs) |-> embedding_text(songs[i])]
        rows == EncodeAll(texts)
        last(id) == CHOOSE i \in 1..Len(songs) :
                        /\ songs[i].id = id
                        /\ \A j \in 1..Len(songs) : songs[j].id = id => j <= i
    IN  [id \in {songs[i].id : i \in 1..Len(songs)} |-> rows[last(id)]]

\* Inputs: the songs as the songs table holds them, one text per song id,
\* read before and after a use
TextOfSong(id, used) ==
    CASE id = 1 -> TextSong(id, Some("rain on glass"), Some("ignored"), used)
      [] id = 2 -> TextSong(id, None, Some("neon drive"), used)
      [] id = 3 -> TextSong(id, Some(""), None, used)
      [] OTHER -> TextSong(id, None, Some("dusk"), used)
TextSongs == {TextOfSong(id, used) : id \in SongIds, used \in {0, 1}}

GenerateForSongsBatch ==
    /\ gen_result = None
    /\ gen_result' = Some(generate_for_songs_batch(gen_songs))
    /\ UNCHANGED <<gen_songs, dbVars, tempoVars, fileVars, repeatVars>>
    /\ UNCHANGED <<storeVars, filterVars, keyVars, scorerVars, matchVars>>

SpecGenInit ==
    /\ gen_songs \in SeqsUpTo(TextSongs, MaxEncodeBatch)
    /\ gen_result = None
    /\ IdleDb /\ IdleTempo /\ IdleFile /\ IdleRepeat
    /\ InitStore /\ IdleFilter /\ IdleKey /\ IdleScorer /\ IdleMatch
SpecGenNext == GenerateForSongsBatch
SpecGen == SpecGenInit /\ [][SpecGenNext]_vars

\* C25: with the embedding model a deterministic function of the text,
\* generate_for_songs_batch returns for every song of the batch the vector
\* generate_for_song returns for that song alone, whatever the song's
\* position in the batch and whatever the other songs in it.
C25_BatchEqualsSingle ==
    gen_result # None =>
        /\ DOMAIN Val(gen_result) = {gen_songs[i].id : i \in 1..Len(gen_songs)}
        /\ \A i \in 1..Len(gen_songs) :
              Val(gen_result)[gen_songs[i].id] = generate_for_song(gen_songs[i])
\* song 2 stands before song 1 in the batch and their vectors differ
C25_Witness ==
    /\ gen_result # None
    /\ Len(gen_songs) = 2
    /\ gen_songs[1].id = 2 /\ gen_songs[2].id = 1
    /\ Val(gen_result)[1] = <<5, 0>>
    /\ Val(gen_result)[2] = <<4, 3>>

---------------------------------------------------------------------------
(* Normalization of the stored vectors: src/src/embeddings/store.py *)

\* the length that stands for norm 1.0: Encode's vectors have it
UnitLength == 5
IsNormalized(v) == Dot(v, v) = UnitLength * UnitLength

---------------------------------------------------------------------------
(* Persistence of the index: EmbeddingStore.save / load                    *)
(* A file is missing (None) or holds bytes: unreadable ones, or a pickled  *)
(* dictionary.  The pickled dictionary keeps, for each of the two entries, *)
(* whether it is there; the song map is written as its (id, Song) items    *)
(* and rebuilt from them on load.                                          *)

Paths == {"embeddings.pkl", "backup.pkl"}

\* dict.items() in ascending id order, and the dict rebuilt from items
Items(d) ==
    LET RECURSIVE from(_)
        from(ids) ==
            IF ids = {} THEN <<>>
            ELSE LET id == CHOOSE x \in ids : \A y \in ids : x <= y
                 IN  <<<<id, d[id]>>>> \o from(ids \ {id})
    IN  from(DOMAIN d)
\* later items win, as in a dict built item by item
DictOfItems(items) ==
    LET ids == {items[i][1] : i \in 1..Len(items)}
        last(id) == CHOOSE i \in 1..Len(items) :
                        /\ items[i][1] = id
                        /\ \A j \in 1..Len(items) : items[j][1] = id => j <= i
    IN  IF ids = {} THEN <<>> ELSE [id \in ids |-> items[last(id)][2]]

Pickled(readable, embs, items) ==
    [readable |-> readable, embeddings |-> embs, song_map |-> items]

\* save: pickle.dump({'embeddings': ..., 'song_map': ...})
save(store) ==
    Pickled(TRUE, Some(store.embeddings), Some(Items(store.song_map)))

\* load, the variant that adds the file's state to the store's
load_extending(store, file) ==
    IF file = None THEN [returned |-> FALSE, store |-> store]
    ELSE IF ~Val(file).readable THEN [returned |-> FALSE, store |-> store]
    ELSE IF Val(file).embeddings = None THEN [returned |-> FALSE, store |-> store]
    ELSE IF Val(file).song_map = None
    THEN [returned |-> FALSE,
          store |-> [embeddings |-> store.embeddings \o Val(Val(file).embeddings),
                     song_map |-> store.song_map]]
    ELSE [returned |-> TRUE,
          store |-> [embeddings |-> store.embeddings \o Val(Val(file).embeddings),
                     song_map |-> DictOfItems(Val(Val(file).song_map)) @@ store.song_map]]

\* load: False when the file is missing; inside the try, pickle.load, then
\* self.embeddings = data['embeddings'], then self.song_map =
\* data['song_map']; any exception ends the call with False, what was
\* assigned before it stays assigned
load(store, file) ==
    IF file = None THEN [returned |-> FALSE, store |-> store]
    ELSE IF ~Val(file).readable THEN [returned |-> FALSE, store |-> store]
    ELSE IF Val(file).embeddings = None THEN [returned |-> FALSE, store |-> store]
    ELSE IF Val(file).song_map = None
    THEN [returned |-> FALSE,
          store |-> [embeddings |-> Val(Val(file).embeddings),
                     song_map |-> store.song_map]]
    ELSE [returned |-> TRUE,
          store |-> [embeddings |-> Val(Val(file).embeddings),
                     song_map |-> DictOfItems(Val(Val(file).song_map))]]

\* Inputs: the indexes a few add_song calls build, and the files found on
\* disk at the start: none, unreadable bytes, or a dictionary written from
\* such an index with both entries or with one of them
FileSongs ==
    {[song |-> StoreSong(1, 0), vec |-> <<5, 0>>],
     [song |-> StoreSong(2, 0), vec |-> <<4, 3>>],
     [song |-> StoreSong(1, 1), vec |-> <<4, 3>>]}
FileStores == {AddAll(EmptyStore, lib) : lib \in SeqsUpTo(FileSongs, MaxStored)}
FoundStore == AddAll(EmptyStore, <<[song |-> StoreSong(2, 0), vec |-> <<5, 0>>]>>)
FoundFiles ==
    {None,
     Some(Pickled(FALSE, None, None)),
     Some(save(FoundStore)),
     Some(Pickled(TRUE, Some(FoundStore.embeddings), None)),
     Some(Pickled(TRUE, None, Some(Items(FoundStore.song_map))))}

Save ==
    /\ \E filepath \in Paths :
        /\ artifact' = [artifact EXCEPT ![filepath] = Some(save(Store))]
        /\ saved' = [saved EXCEPT ![filepath] = Some(Store)]
        /\ loaded' = None
    /\ UNCHANGED <<dbVars, tempoVars, genVars, repeatVars>>
    /\ UNCHANGED <<storeVars, filterVars, keyVars, scorerVars, matchVars>>

Load ==
    /\ \E filepath \in Paths :
        LET r == load(Store, artifact[filepath])
        IN  /\ embeddings' = r.store.embeddings
            /\ song_map' = r.store.song_map
            /\ loaded' = Some([filepath |-> filepath, returned |-> r.returned,
                               before |-> Store, after |-> r.store])
    /\ UNCHANGED <<artifact, saved, dbVars, tempoVars, genVars, repeatVars>>
    /\ UNCHANGED <<searched, firstAdded, lastAdded, readded>>
    /\ UNCHANGED <<filterVars, keyVars, scorerVars, matchVars>>

SpecFileInit ==
    /\ \E s \in FileStores : embeddings = s.embeddings /\ song_map = s.song_map
    /\ searched = None /\ firstAdded = <<>> /\ lastAdded = <<>> /\ readded = FALSE
    /\ artifact \in [Paths -> FoundFiles]
    /\ saved = [filepath \in Paths |-> None]
    /\ loaded = None
    /\ IdleDb /\ IdleTempo /\ IdleGen /\ IdleRepeat
    /\ IdleFilter /\ IdleKey /\ IdleScorer /\ IdleMatch
SpecFileNext == Save \/ Load \/ Clear
SpecFile == SpecFileInit /\ [][SpecFileNext]_vars

\* C21: save followed by load of the same artifact, into any store, empty
\* or not, reproduces exactly the saved state: the same (song id, vector)
\* entries in the same order and the same song-id-to-Song associations,
\* replacing whatever the loading store held before.
C21_SaveLoadRoundTrip ==
    (loaded # None /\ saved[Val(loaded).filepath] # None) =>
        /\ Val(loaded).returned
        /\ Val(loaded).after = Val(saved[Val(loaded).filepath])
\* the saved index of two songs is loaded into an index that held another
\* song under another vector
C21_Witness ==
    /\ loaded # None
    /\ saved[Val(loaded).filepath] # None
    /\ Val(loaded).before = FoundStore
    /\ Len(Val(loaded).after.embeddings) = 2
    /\ Val(loaded).after.embeddings[1][1] = 2
    /\ Store = Val(loaded).after

\* C27: when load returns False (file missing, unreadable, or an artifact
\* lacking one of the 'embeddings' / 'song_map' entries) the store's state
\* is unchanged, so every id in embeddings still has a Song in song_map
\* and a following search cannot fail on a missing song.
C27_FailedLoadLeavesStore ==
    (loaded # None /\ ~Val(loaded).returned) =>
        /\ Val(loaded).after = Val(loaded).before
        /\ \A i \in 1..Len(Val(loaded).after.embeddings) :
              Val(loaded).after.embeddings[i][1] \in DOMAIN Val(loaded).after.song_map

---------------------------------------------------------------------------
(* The key term of a prompt's scores: matcher.py, _build_filters_from_prompt *)

\* C30: _build_filters_from_prompt never sets preferred_key, so the
\* key-compatibility term of every score is 0 and every returned
\* final_score is at most 1 - the effective key weight: at most 0.90 with
\* the default weights.
C30_KeyTermAlwaysZero ==
    /\ built_filters # None => Val(built_filters).preferred_key = None
    /\ Returned =>
          \A i \in 1..Len(Val(matched).matches) :
              LET m == Val(matched).matches[i]
              IN  /\ m.final_score.num
                        <= (Val(scorer).unit - Val(scorer).key_weight) * 100
                  /\ weights = WeightsDict(None, None, None, None, None)
                        => m.final_score.num * 100 <= 90 * m.final_score.den

---------------------------------------------------------------------------
(* The relaxed candidate threshold: matcher.py, step 2 *)

\* find_matches_for_prompt with step 2 searching at the caller's
\* min_similarity instead of 0.8 x min_similarity
find_matches_searching_at_min(store, sc, p, arc, count, min_sim_arg, query, order) ==
    LET min_sim == IF min_sim_arg = None THEN DefaultMinSimilarity ELSE Val(min_sim_arg)
        cands == search(store, query, CandidateTopK, min_sim, order)
        f == build_filters_from_prompt(p, arc, DefaultBpmTolerance)
        survivors == apply_filters(cands, f)
        scoring == score_candidates(sc, survivors, min_sim, f)
        sorted == sort_by_final_score(scoring.scored_matches)
    IN  IF cands = <<>> THEN MatchOutcome("", {}, cands, <<>>, <<>>, <<>>)
        ELSE IF survivors = <<>> THEN MatchOutcome("", {}, cands, survivors, <<>>, <<>>)
        ELSE IF scoring.raised # ""
             THEN MatchOutcome(scoring.raised, scoring.fields, cands, survivors, <<>>, <<>>)
        ELSE MatchOutcome("", {}, cands, survivors, sorted, SliceTo(sorted, count))

---------------------------------------------------------------------------
(* The candidate cut: an index of more songs than step 2 asks for *)

\* Inputs: an index of `tops` songs whose vector equals the query, all
\* used `used` times, and two less similar songs that pass every filter,
\* added before or after them
TopSong(id, used) ==
    [song |-> Song(id, Some(95), Some("mid_tempo"), Some(180), used, None, Some(2)),
     vec |-> <<5, 0>>]
TailSong(id) ==
    [song |-> Song(id, Some(95), Some("mid_tempo"), Some(180), 0, None, Some(2)),
     vec |-> <<4, 3>>]
WideLibrary(tops, used, tail_first) ==
    IF tail_first
    THEN <<TailSong(1), TailSong(2)>> \o [i \in 1..tops |-> TopSong(i + 2, used)]
    ELSE [i \in 1..tops |-> TopSong(i, used)] \o <<TailSong(tops + 1), TailSong(tops + 2)>>
WideLibraries ==
    {WideLibrary(tops, used, tail_first) :
        tops \in (CandidateTopK - 1)..(CandidateTopK + 1),
        used \in {0, 11}, tail_first \in BOOLEAN}
WideCounts == {1, CandidateTopK + 10}
\* the index after add_song for every song of a library of distinct songs
AddedInOrder(lib) ==
    [embeddings |-> [i \in 1..Len(lib) |-> <<lib[i].song.id, lib[i].vec>>],
     song_map |-> [id \in {lib[i].song.id : i \in 1..Len(lib)} |->
                     (CHOOSE r \in Range(lib) : r.song.id = id).song]]
NotedInOrder(lib) ==
    [first |-> [i \in 1..Len(lib) |-> lib[i].song.id],
     last |-> [id \in {lib[i].song.id : i \in 1..Len(lib)} |->
                 LET r == CHOOSE x \in Range(lib) : x.song.id = id
                 IN  [vec |-> r.vec, song |-> r.song]]]

\* a matcher over a large index answers one prompt
SpecWideInit ==
    /\ \E lib \in WideLibraries :
          /\ embeddings = AddedInOrder(lib).embeddings
          /\ song_map = AddedInOrder(lib).song_map
          /\ firstAdded = NotedInOrder(lib).first
          /\ lastAdded = NotedInOrder(lib).last
    /\ readded = FALSE
    /\ searched = None
    /\ weights = WeightsDict(None, None, None, None, None)
    /\ scorer = Some(scorer_init(weights))
    /\ score_song = None /\ score_similarity = None /\ score_filters = None
    /\ scored = None
    /\ prompt_text \in {Some(t) : t \in MatchTexts}
    /\ prompt = Some(NotionPrompt(Val(prompt_text)))
    /\ arc_number = Some(2)
    /\ built_filters = None
    /\ match_query = Some(<<5, 0>>)
    /\ match_count \in {Some(c) : c \in WideCounts}
    /\ match_min_similarity \in MatchMinSimilarities
    /\ matched = None
    /\ calls_left = 1
    /\ argsorted = None
    /\ IdleFilter /\ IdleKey /\ IdleDb /\ IdleTempo /\ IdleGen /\ IdleFile
SpecWideNext == FindMatches
SpecWide == SpecWideInit /\ [][SpecWideNext]_vars

\* the stored entries strictly more similar to the query than entry k
MoreSimilar(k) ==
    {j \in 1..Len(embeddings) : SimAt(Val(match_query), j) > SimAt(Val(match_query), k)}
EntryOf(id) == CHOOSE k \in 1..Len(embeddings) : embeddings[k][1] = id

\* C29: every song returned by find_matches_for_prompt is among the 50
\* stored entries with the highest similarity to the query: the candidate
\* set is cut to 50 before filtering, so a song ranked below 50th by
\* similarity is never returned, even when it passes every filter and
\* fewer than `count` matches are returned.
C29_ReturnedAmongTopCandidates ==
    Returned =>
        \A i \in 1..Len(Val(matched).matches) :
            Cardinality(MoreSimilar(EntryOf(Val(matched).matches[i].song.id)))
                < CandidateTopK
\* fewer matches than asked for came back, and a song that clears the
\* caller's threshold and every filter, with 50 entries or more above it,
\* is not among them
C29_Witness ==
    /\ Returned
    /\ Len(Val(matched).matches) < Val(match_count)
    /\ \E k \in 1..Len(embeddings) :
          LET song == song_map[embeddings[k][1]]
              sim == SimAt(Val(match_query), k)
              f == build_filters_from_prompt(Val(prompt), Val(arc_number),
                                             DefaultBpmTolerance)
          IN  /\ sim >= CallerMinSimilarity
              /\ apply_filters(<<<<song, sim>>>>, f) # <<>>
              /\ Cardinality(MoreSimilar(k)) >= CandidateTopK
              /\ song.id \notin MatchedIds(Val(matched).matches)

---------------------------------------------------------------------------
(* The same query asked twice of the same index *)

RepeatCounts == {1, 5}
RepeatMinSimilarities == {None, Some(0)}

\* a matcher over a loaded index answers one prompt, twice
SpecRepeatInit ==
    /\ \E lib \in Libraries :
          /\ embeddings = AddAll(EmptyStore, lib).embeddings
          /\ song_map = AddAll(EmptyStore, lib).song_map
          /\ firstAdded = NoteAll(EmptyHist, lib).first
          /\ lastAdded = NoteAll(EmptyHist, lib).last
    /\ readded = FALSE
    /\ searched = None
    /\ weights = WeightsDict(None, None, None, None, None)
    /\ scorer = Some(scorer_init(weights))
    /\ score_song = None /\ score_similarity = None /\ score_filters = None
    /\ scored = None
    /\ prompt_text \in {Some(t) : t \in MatchTexts}
    /\ prompt = Some(NotionPrompt(Val(prompt_text)))
    /\ arc_number = Some(2)
    /\ built_filters = None
    /\ match_query \in {Some(q) : q \in MatchQueries}
    /\ match_count \in {Some(c) : c \in RepeatCounts}
    /\ match_min_similarity \in RepeatMinSimilarities
    /\ matched = None
    /\ calls_left = 2
    /\ argsorted = None
    /\ IdleFilter /\ IdleKey /\ IdleDb /\ IdleTempo /\ IdleGen /\ IdleFile
SpecRepeatNext == FindMatches
SpecRepeat == SpecRepeatInit /\ [][SpecRepeatNext]_vars

===========================================================================
